---- MODULE Spec2Model ----
(***************************************************************************)
(* Model of the lottery-drum physics engine (the Physics module embedded   *)
(* in src/lottery-gas/SyncService.gs, lines 165-875).                      *)
(*                                                                         *)
(* Units.  Positions and lengths are pixels (integers).  Velocities are    *)
(* tenths of a pixel per step.  Forces are in units of 1e-7.  Ratios such  *)
(* as 0.92 are applied as exact integer fractions (92/100).                *)
(*                                                                         *)
(* The rigid-body solver (Matter.js Engine.update) is an external black    *)
(* box: one solver step gives every body in the world a position and a     *)
(* velocity drawn from the frame's draws and clears its force             *)
(* accumulator.                                                            *)
(* Math.random and the sin/cos noise are nondeterministic choices.         *)
(***************************************************************************)
EXTENDS Integers, Sequences, FiniteSets, Bags, TLC

\* ------------------------------------------------------------------------
\* Program constants
\* ------------------------------------------------------------------------
CAT_BALL == 1
CAT_WALL == 2
CAT_EXITING == 4

BG_W == 1344
BG_H == 768
ANCHOR_X == 642              \* 0.642, in thousandths
ANCHOR_Y == 548              \* 0.548, in thousandths
RADIUS_RATIO == 270          \* 0.270, in thousandths
RIGHT_PANEL_WIDTH == 240
WALL_SEGMENTS == 90
EXIT_GAP_MARGIN == 24
TURBULENCE_SPEED_LIMIT == 120   \* 12 px/step, in tenths
RISING_SPEED_LIMIT == 60        \* 6 px/step, in tenths
RISING_FORCE_BASE == 40000      \* 0.004
RISING_FORCE_RAMP == 40000      \* 0.004
RISING_HORZ_BASE == 3000        \* 0.0003
RISING_HORZ_RAMP == 5000        \* 0.0005
RISING_RAMP_DURATION == 2000
CHANNEL_FORCE_HORZ == 10000     \* 0.001
CHANNEL_FORCE_UP == 60000       \* 0.006
BOUNDARY_HARD_RATIO == 92       \* 0.92, in hundredths
BOUNDARY_TELEPORT_RATIO == 80   \* 0.8, in hundredths
RESCUE_THRESHOLD_RATIO == 90    \* 0.9, in hundredths
STEER_PERIOD == 16              \* setInterval(steer, 16); exitTimer += 16

\* ------------------------------------------------------------------------
\* Bounds of the model
\* ------------------------------------------------------------------------
MaxTicks == 3        \* guidance ticks one ejection may take
MaxEjects == 2       \* ejectOneBall calls in a run
MaxCreates == 1      \* createBalls calls in a run
MaxTurbulenceTime == 16   \* elapsed turbulence time per activation (ms)

NULL == "null"
\* window.innerWidth / innerHeight
Viewport == [w |-> 1344, h |-> 768]

\* ------------------------------------------------------------------------
\* Arithmetic helpers
\* ------------------------------------------------------------------------
Min(a, b) == IF a < b THEN a ELSE b
Max(a, b) == IF a > b THEN a ELSE b
Abs(a) == IF a < 0 THEN -a ELSE a

\* Math.sqrt, rounded down; exact on the perfect squares the frames draw
RECURSIVE SqrtSearch(_, _, _)
SqrtSearch(n, lo, hi) ==
    IF lo >= hi THEN lo
    ELSE LET mid == (lo + hi + 1) \div 2
         IN  IF mid * mid <= n THEN SqrtSearch(n, mid, hi)
             ELSE SqrtSearch(n, lo, mid - 1)
Sqrt(n) == SqrtSearch(n, 0, 46340)

\* integer division rounding toward zero, as a signed quotient
Quot(a, b) == IF a >= 0 THEN a \div b ELSE -((-a) \div b)

\* Angles are in units of 1e-4 rad.
PI == 31416
TWO_PI == 62832
NaN == -1
\* Math.sin on [0, PI/2], result in units of 1e-4 (Taylor series, 4 terms)
Sin(x) ==
    LET x2 == (x * x) \div 10000
        t3 == (x2 * x) \div 10000
        t5 == (t3 * x2) \div 10000
        t7 == ((t5 \div 10) * x2) \div 1000
    IN  x - t3 \div 6 + t5 \div 120 - t7 \div 5040
RECURSIVE AsinSearch(_, _, _)
AsinSearch(s, lo, hi) ==
    IF lo >= hi THEN lo
    ELSE LET mid == (lo + hi) \div 2
         IN  IF Sin(mid) >= s THEN AsinSearch(s, lo, mid)
             ELSE AsinSearch(s, mid + 1, hi)
\* Math.asin(num / den): NaN when the ratio is outside [-1, 1] or 0/0,
\* which is what asin(Infinity) and asin(NaN) give
Asin(num, den) ==
    IF den <= 0 \/ num > den THEN NaN
    ELSE AsinSearch((num * 10000) \div den, 0, PI \div 2)

normalizeAngle(angle) == ((angle % TWO_PI) + TWO_PI) % TWO_PI
angularDistance(a, b) ==
    LET d == Abs(normalizeAngle(a) - normalizeAngle(b))
    IN  IF d > PI THEN TWO_PI - d ELSE d
\* a < b and a >= b on numbers that may be NaN (every comparison is false)
NumLt(a, b) == a # NaN /\ b # NaN /\ a < b
NumGe(a, b) == a # NaN /\ b # NaN /\ a >= b

\* ------------------------------------------------------------------------
\* State (module state of Physics, SyncService.gs 228-248, plus the timers
\* and callbacks the module hands to the host)
\* ------------------------------------------------------------------------
VARIABLES
    engine,               \* [exists, gravityY, gravityScale]; gravityScale in 1e-3
    world,                \* [balls: set of ball ids, statics: bag of static bodies]
    containerCenter,      \* [x, y]
    containerRadius,
    exitGapHalfAngle,
    entryGapHalfAngle,
    entryAngle,
    balls,                \* sequence of ball ids: the live ball list
    wallBodies,
    entryGateBodies,
    lidBodies,
    containerSealed,
    exitChannel,          \* [x, topY, bottomY, width]
    configBallRadius,
    turbulenceActive,
    turbulenceTime,
    swirlMultiplier,      \* in tenths
    exitGateBody,         \* a static body, or NoBody for null
    ballCreationInterval, \* timer handle, or 0 for null
    body,                 \* ball id -> the Matter body object and its expando fields
    timers,               \* handle -> live setInterval task
    nextHandle,           \* next handle setInterval returns
    nextBall,             \* identity of the next body Bodies.circle creates
    ejectCalls,           \* ejectOneBall calls so far; call k carries callback k
    createCalls,          \* createBalls calls so far; call k carries onAllCreated k
    cbLog,                \* invocations of ejection callbacks, in order:
                          \* [cb: the call, arg: its argument, ball: the body exited]
    createdLog,           \* invocations of onAllCreated callbacks, in order
    \* the page around the engine
    viewport,             \* [w, h]: window.innerWidth / innerHeight
    \* the controller (app.js 15-20, 120, and the closures of handleDraw)
    state,                \* 'IDLE', 'LOADING', 'READY', 'SPINNING', 'DRAWING', 'COMPLETE'
    winners,              \* names drawn so far, in order
    animFrameId,          \* whether the animation loop is scheduled
    physicsInited,
    appCalls,             \* what the running handler has still to do, in order
    appTimers,            \* pending setTimeout callbacks of the controller
    batch,                \* the draw batch in progress: the closure of handleDraw
                          \* [count, remainingBalls, actualCount, drawn]
    \* the synchronisation service (SyncService.gs 10-94)
    cache,                \* the script cache: [version, commands, snapshot]
    lock,                 \* holder of the script lock, or 0
    proc,                 \* request id -> the position and locals of that call
    replies,              \* what each finished request returned
    \* the spreadsheet (SheetService.gs 5-11, 16-17)
    nameSheet,            \* the data rows of the name-list sheet, row 2 onwards:
                          \* [name, won, absent], the texts of columns B, C, D
    recordSheet           \* the winner-record sheet: <<>> if the spreadsheet has
                          \* none, else <<rows>> with rows of [name, round, sheetName]

geometryVars == <<containerCenter, containerRadius, exitGapHalfAngle,
                  entryGapHalfAngle, entryAngle, exitChannel>>
wallVars == <<wallBodies, entryGateBodies, lidBodies>>
configVars == <<configBallRadius, swirlMultiplier>>
turbVars == <<turbulenceActive, turbulenceTime>>
timerVars == <<timers, nextHandle, ballCreationInterval>>
countVars == <<ejectCalls, createCalls>>
hostVars == <<cbLog, createdLog>>

appVars == <<state, winners, animFrameId, physicsInited, appCalls, appTimers, batch>>
syncVars == <<cache, lock, proc, replies>>
\* what the engine does not own
sheetVars == <<nameSheet, recordSheet>>
outerVars == <<viewport, appVars, syncVars, sheetVars>>

vars == <<engine, world, geometryVars, balls, wallVars, containerSealed,
          configVars, turbVars, exitGateBody, body, nextBall, timerVars,
          countVars, hostVars, outerVars>>

\* a step of the engine alone
Stay == UNCHANGED outerVars
\* what the engine owns
physVars == <<engine, world, geometryVars, balls, wallVars, containerSealed,
              configVars, turbVars, exitGateBody, body, nextBall, timerVars,
              countVars, hostVars>>

\* the script cache with none of the three keys stored.  A key holds a
\* string; an absent key reads as null.  Here a stored version is its
\* decimal digits, and the stored commands and snapshot are <<v>> for the
\* JSON text of v; <<>> is the absent key.
EmptyCache == [version |-> <<>>, commands |-> <<>>, snapshot |-> <<>>]

NoBody == [label |-> "none", seg |-> 0, category |-> 0, mask |-> 0]
Static(label, seg, mask) ==
    [label |-> label, seg |-> seg, category |-> CAT_WALL, mask |-> mask]

\* bitwise OR / AND on the three category bits
Bits(n) == {b \in {1, 2, 4} : (n \div b) % 2 = 1}
RECURSIVE SumSet(_)
SumSet(S) == IF S = {} THEN 0 ELSE LET e == CHOOSE e \in S : TRUE IN e + SumSet(S \ {e})
BitOr(a, b) == SumSet(Bits(a) \cup Bits(b))
BitAnd(a, b) == SumSet(Bits(a) \cap Bits(b))

Init ==
    /\ engine = [exists |-> FALSE, gravityY |-> 0, gravityScale |-> 0]
    /\ world = [balls |-> {}, statics |-> EmptyBag]
    /\ containerCenter = [x |-> 0, y |-> 0]
    /\ containerRadius = 0
    /\ exitGapHalfAngle = 0
    /\ entryGapHalfAngle = 0
    /\ entryAngle = PI
    /\ balls = <<>>
    /\ wallBodies = {}
    /\ entryGateBodies = {}
    /\ lidBodies = {}
    /\ containerSealed = FALSE
    /\ exitChannel = [x |-> 0, topY |-> 0, bottomY |-> 0, width |-> 46]
    /\ configBallRadius = 24
    /\ turbulenceActive = FALSE
    /\ turbulenceTime = 0
    /\ swirlMultiplier = 10
    /\ exitGateBody = NoBody
    /\ ballCreationInterval = 0
    /\ body = <<>>
    /\ timers = <<>>
    /\ nextHandle = 1
    /\ nextBall = 1
    /\ ejectCalls = 0
    /\ createCalls = 0
    /\ cbLog = <<>>
    /\ createdLog = <<>>
    /\ viewport = Viewport
    /\ state = "IDLE"
    /\ winners = <<>>
    /\ animFrameId = FALSE
    /\ physicsInited = FALSE
    /\ appCalls = <<>>
    /\ appTimers = {}
    /\ batch = [actualCount |-> 0, drawn |-> 0, count |-> 0, remainingBalls |-> 0]
    /\ cache = EmptyCache
    /\ lock = 0
    /\ proc = <<>>
    /\ replies = <<>>
    /\ nameSheet = <<>>
    /\ recordSheet = <<>>

\* ------------------------------------------------------------------------
\* Caller protocol (app.js).  The controller creates the engine once and
\* lays it out before it accepts any user action (start -> drawPreview,
\* 131-147, 334-340).  It re-lays-out or reloads only when no periodic task
\* of the engine is pending: handleLoad and the resize handler act in state
\* IDLE only, handleReset is refused while LOADING or DRAWING and calls
\* cleanup() before layout (174-180, 269-291, 309-315); createBalls always
\* follows a layout (handleLoad, 178-184).
\* ------------------------------------------------------------------------
LaidOut == engine.exists /\ wallBodies # {}
Quiescent == DOMAIN timers = {}
FreshLayout == world.balls = {} /\ balls = <<>>

\* ------------------------------------------------------------------------
\* The window
\* ------------------------------------------------------------------------
\* the browser window is resized
resize(vp) ==
    /\ viewport' = vp
    /\ UNCHANGED <<engine, world, geometryVars, balls, wallVars, containerSealed,
                   configVars, turbVars, exitGateBody, body, nextBall,
                   timerVars, countVars, hostVars, appVars, syncVars, sheetVars>>

\* ------------------------------------------------------------------------
\* init()
\* ------------------------------------------------------------------------
init ==
    /\ ~engine.exists
    /\ engine' = [exists |-> TRUE, gravityY |-> 1, gravityScale |-> 1]
    /\ UNCHANGED <<world, geometryVars, balls, wallVars, containerSealed,
                   configVars, turbVars, exitGateBody, body, nextBall,
                   timerVars, countVars, hostVars>>

\* ------------------------------------------------------------------------
\* layout(canvasW, canvasH) and the geometry builders
\* ------------------------------------------------------------------------
SegmentAngle(i) == (TWO_PI * i) \div WALL_SEGMENTS
ExitCenter == (3 * PI) \div 2
Segments == 0 .. (WALL_SEGMENTS - 1)

createWallSegment(i, label, collisionMask) == Static(label, i, collisionMask)

\* the segments buildCircularWall pushes, for given gap angles
buildCircularWall(exitHalf, entryAng, entryHalf) ==
    LET mask == BitOr(CAT_BALL, CAT_EXITING)
    IN  { createWallSegment(i, "wall", mask) :
            i \in { j \in Segments :
                      /\ ~NumLt(angularDistance(SegmentAngle(j), ExitCenter), exitHalf)
                      /\ ~NumLt(angularDistance(SegmentAngle(j), entryAng), entryHalf) } }

\* channel walls built with the filter of the boundary segments
ExitChannelWallsForAll ==
    { Static("exitWall", 0, BitOr(CAT_BALL, CAT_EXITING)),
      Static("exitWall", 1, BitOr(CAT_BALL, CAT_EXITING)),
      Static("channelStopper", 0, CAT_BALL) }

\* leftWall, rightWall and the channelStopper
buildExitChannelWalls ==
    { Static("exitWall", 0, CAT_EXITING),
      Static("exitWall", 1, CAT_EXITING),
      Static("channelStopper", 0, CAT_BALL) }

\* the segments buildEntryGate pushes
buildEntryGate(entryAng, entryHalf) ==
    LET mask == BitOr(CAT_BALL, CAT_EXITING)
    IN  { createWallSegment(i, "entryGate", mask) :
            i \in { j \in Segments :
                      ~NumGe(angularDistance(SegmentAngle(j), entryAng), entryHalf) } }

\* a gate bar that stops free balls instead of ejected ones
ExitGateForBalls == Static("exitGate", 0, CAT_BALL)

\* the body buildExitGate creates
ExitGate == Static("exitGate", 0, CAT_EXITING)

\* a / b in thousandths, rounded down: (a * 1000) \div b without forming
\* a * 1000
Thousandths(a, b) == (a \div b) * 1000 + ((a % b) * 1000) \div b

\* a radius taken from the background alone
ClampRadiusNone(r0, maxR) == r0
\* containerRadius = Math.min(containerRadius, maxR)
ClampRadius(r0, maxR) == Min(r0, maxR)

\* container placement, computed in thousandths of a pixel
LayoutGeometry(canvasW, canvasH, ballRadius) ==
    LET vpW == viewport.w
        vpH == viewport.h
        wide == vpW * BG_H >= vpH * BG_W       \* vpW / BG_W is the larger scale
        bgDispW == IF wide THEN vpW * 1000 ELSE Thousandths(BG_W * vpH, BG_H)
        bgDispH == IF wide THEN Thousandths(BG_H * vpW, BG_W) ELSE vpH * 1000
        bgOffX == Quot(vpW * 1000 - bgDispW, 2)
        bgOffY == Quot(vpH * 1000 - bgDispH, 2)
        canvasOffX == (vpW - canvasW - RIGHT_PANEL_WIDTH) * 1000
        cx0 == bgOffX + (ANCHOR_X * (bgDispW \div 1000)) - canvasOffX
        cy0 == bgOffY + (ANCHOR_Y * (bgDispH \div 1000))
        r0 == RADIUS_RATIO * (bgDispH \div 1000)
        margin == 15000
        maxR == Min(Quot(canvasW * 1000 - margin * 2, 2),
                    Quot(canvasH * 1000 - margin * 2, 2))
        r == ClampRadius(r0, maxR)
        cx == Max(r + margin, Min(cx0, canvasW * 1000 - r - margin))
        cy == Max(r + margin, Min(cy0, canvasH * 1000 - r - margin))
        R == r \div 1000
        containerTop == cy \div 1000 - R
        channelWidth == Max(30, ballRadius * 2 + 8)
    IN  [center |-> [x |-> cx \div 1000, y |-> cy \div 1000],
         radius |-> R,
         exitGapHalfAngle |-> Asin(channelWidth + 2 * EXIT_GAP_MARGIN, 2 * R),
         entryAngle |-> PI + 4000,
         entryGapHalfAngle |-> 4000,
         exitChannel |-> [x |-> cx \div 1000,
                          topY |-> containerTop - Min((R * 35) \div 100, 100),
                          bottomY |-> containerTop,
                          width |-> channelWidth]]

\* a layout that forgets to drop the old gate reference: buildExitGate then
\* finds a gate and returns, and the cleared world has no gate bar
layoutStaleGate(canvasW, canvasH) ==
    /\ engine.exists
    /\ Quiescent
    /\ \E g \in {LayoutGeometry(canvasW, canvasH, configBallRadius)} :
       \E wall \in {buildCircularWall(g.exitGapHalfAngle, g.entryAngle,
                                      g.entryGapHalfAngle)},
          gate \in {buildEntryGate(g.entryAngle, g.entryGapHalfAngle)} :
        /\ balls' = <<>>
        /\ wallBodies' = wall
        /\ entryGateBodies' = gate
        /\ lidBodies' = {}
        /\ containerSealed' = FALSE
        /\ exitGateBody' = IF exitGateBody # NoBody THEN exitGateBody ELSE ExitGate
        /\ containerCenter' = g.center
        /\ containerRadius' = g.radius
        /\ exitGapHalfAngle' = g.exitGapHalfAngle
        /\ entryAngle' = g.entryAngle
        /\ entryGapHalfAngle' = g.entryGapHalfAngle
        /\ exitChannel' = g.exitChannel
        /\ world' = [balls |-> {},
                     statics |-> SetToBag(wall) (+) SetToBag(buildExitChannelWalls)
                                   (+) SetToBag(gate)
                                   (+) (IF exitGateBody # NoBody THEN EmptyBag
                                        ELSE SetToBag({ExitGate}))]
        /\ body' = <<>>
        /\ UNCHANGED <<engine, configVars, turbVars, nextBall, timerVars,
                       countVars, hostVars>>

layout(canvasW, canvasH) ==
    /\ engine.exists
    /\ Quiescent
    /\ \E g \in {LayoutGeometry(canvasW, canvasH, configBallRadius)} :
       \E wall \in {buildCircularWall(g.exitGapHalfAngle, g.entryAngle,
                                      g.entryGapHalfAngle)},
          gate \in {buildEntryGate(g.entryAngle, g.entryGapHalfAngle)} :
        /\ balls' = <<>>
        /\ wallBodies' = wall
        /\ entryGateBodies' = gate
        /\ lidBodies' = {}
        /\ containerSealed' = FALSE
        /\ exitGateBody' = ExitGate
        /\ containerCenter' = g.center
        /\ containerRadius' = g.radius
        /\ exitGapHalfAngle' = g.exitGapHalfAngle
        /\ entryAngle' = g.entryAngle
        /\ entryGapHalfAngle' = g.entryGapHalfAngle
        /\ exitChannel' = g.exitChannel
        /\ world' = [balls |-> {},
                     statics |-> SetToBag(wall) (+) SetToBag(buildExitChannelWalls)
                                   (+) SetToBag(gate) (+) SetToBag({ExitGate})]
        \* bodies of the previous layout are no longer referenced by anything
        /\ body' = <<>>
        /\ UNCHANGED <<engine, configVars, turbVars, nextBall, timerVars,
                       countVars, hostVars>>

\* openExitGate / closeExitGate / isExitGateClosed
buildExitGate ==
    IF exitGateBody # NoBody
    THEN UNCHANGED <<exitGateBody, world>>
    ELSE /\ exitGateBody' = ExitGate
         /\ world' = [world EXCEPT !.statics = @ (+) SetToBag({ExitGate})]

openExitGate ==
    /\ LaidOut
    /\ IF exitGateBody # NoBody
       THEN /\ world' = [world EXCEPT !.statics = @ (-) SetToBag({exitGateBody})]
            /\ exitGateBody' = NoBody
       ELSE UNCHANGED <<exitGateBody, world>>
    /\ UNCHANGED <<engine, geometryVars, balls, wallVars, containerSealed,
                   configVars, turbVars, body, nextBall, timerVars, countVars,
                   hostVars>>

\* a close that builds a bar without looking for the one in place
closeExitGateUnguarded ==
    /\ LaidOut
    /\ exitGateBody' = ExitGate
    /\ world' = [world EXCEPT !.statics = @ (+) SetToBag({ExitGate})]
    /\ UNCHANGED <<engine, geometryVars, balls, wallVars, containerSealed,
                   configVars, turbVars, body, nextBall, timerVars, countVars,
                   hostVars>>

closeExitGate ==
    /\ LaidOut
    /\ IF exitGateBody = NoBody THEN buildExitGate
       ELSE UNCHANGED <<exitGateBody, world>>
    /\ UNCHANGED <<engine, geometryVars, balls, wallVars, containerSealed,
                   configVars, turbVars, body, nextBall, timerVars, countVars,
                   hostVars>>

isExitGateClosed == exitGateBody # NoBody

\* ------------------------------------------------------------------------
\* Balls
\* ------------------------------------------------------------------------
ListedBalls == {balls[i] : i \in 1 .. Len(balls)}

\* squared distance of ball record b from point (px, py)
Dist2(b, px, py) == (b.x - px) * (b.x - px) + (b.y - py) * (b.y - py)
CenterDist2(b) == Dist2(b, containerCenter.x, containerCenter.y)
\* dist > containerRadius * pct / 100, compared on squares (pct is even)
BeyondRatio(d2, pct) ==
    2500 * d2 > ((pct \div 2) * (pct \div 2)) * containerRadius * containerRadius

\* the body Bodies.circle returns in the spawn tick, with its expando fields
NewBall(name, ballRadius, x, y) ==
    [name |-> name, ballRadius |-> ballRadius,
     x |-> x, y |-> y, vx |-> 0, vy |-> 0, fx |-> 0, fy |-> 0,
     restitution |-> 3, friction |-> 5, frictionAir |-> 10,
     category |-> CAT_BALL, mask |-> BitOr(CAT_BALL, CAT_WALL),
     isExiting |-> FALSE, hasExited |-> FALSE,
     exitPhase |-> "none", exitTimer |-> 0, steerInterval |-> 0]

\* (Math.random() - 0.5) * containerRadius * 0.8, among the offered jitters
SpawnOffsets(jitters) == {j \in jitters : 10 * Abs(j) <= 4 * containerRadius}

createBalls(names, ballRadius) ==
    /\ LaidOut
    /\ Quiescent
    /\ FreshLayout
    /\ createCalls < MaxCreates
    /\ balls' = <<>>
    /\ createCalls' = createCalls + 1
    /\ timers' = (nextHandle :>
                    [kind |-> "spawn", names |-> names, idx |-> 0,
                     ballRadius |-> ballRadius,
                     spawnX |-> containerCenter.x,
                     spawnY |-> containerCenter.y - (containerRadius * 5) \div 10,
                     cb |-> createCalls + 1]) @@ timers
    /\ ballCreationInterval' = nextHandle
    /\ nextHandle' = nextHandle + 1
    /\ UNCHANGED <<engine, world, geometryVars, wallVars, containerSealed,
                   configVars, turbVars, exitGateBody, body, nextBall,
                   ejectCalls, hostVars>>

\* timers without handle h (clearInterval; a dead or null handle is a no-op)
clearInterval(tm, h) == [k \in DOMAIN tm \ {h} |-> tm[k]]

\* a spawn tick that finishes one tick early, before the last name
SpawnTickEarly(h, jitters) ==
    /\ h \in DOMAIN timers
    /\ timers[h].kind = "spawn"
    /\ LET t == timers[h] IN
       IF t.idx >= Len(t.names) - 1
       THEN /\ timers' = clearInterval(timers, ballCreationInterval)
            /\ ballCreationInterval' = 0
            /\ createdLog' = Append(createdLog, t.cb)
            /\ UNCHANGED <<balls, body, world, nextBall>>
       ELSE \E j \in SpawnOffsets(jitters) :
            /\ body' = (nextBall :> NewBall(t.names[t.idx + 1], t.ballRadius,
                                            t.spawnX + j, t.spawnY)) @@ body
            /\ balls' = Append(balls, nextBall)
            /\ world' = [world EXCEPT !.balls = @ \cup {nextBall}]
            /\ nextBall' = nextBall + 1
            /\ timers' = [timers EXCEPT ![h].idx = @ + 1]
            /\ UNCHANGED <<ballCreationInterval, createdLog>>
    /\ UNCHANGED <<engine, geometryVars, wallVars, containerSealed, configVars,
                   turbVars, exitGateBody, nextHandle, countVars, cbLog>>

\* one firing of the interval callback createBalls installed
SpawnTick(h, jitters) ==
    /\ h \in DOMAIN timers
    /\ timers[h].kind = "spawn"
    /\ LET t == timers[h] IN
       IF t.idx >= Len(t.names)
       THEN /\ timers' = clearInterval(timers, ballCreationInterval)
            /\ ballCreationInterval' = 0
            /\ createdLog' = Append(createdLog, t.cb)
            /\ UNCHANGED <<balls, body, world, nextBall>>
       ELSE \E j \in SpawnOffsets(jitters) :
            /\ body' = (nextBall :> NewBall(t.names[t.idx + 1], t.ballRadius,
                                            t.spawnX + j, t.spawnY)) @@ body
            /\ balls' = Append(balls, nextBall)
            /\ world' = [world EXCEPT !.balls = @ \cup {nextBall}]
            /\ nextBall' = nextBall + 1
            /\ timers' = [timers EXCEPT ![h].idx = @ + 1]
            /\ UNCHANGED <<ballCreationInterval, createdLog>>
    /\ UNCHANGED <<engine, geometryVars, wallVars, containerSealed, configVars,
                   turbVars, exitGateBody, nextHandle, countVars, cbLog>>

\* ------------------------------------------------------------------------
\* sealContainer() and the rescue pass
\* ------------------------------------------------------------------------
\* the offered offsets from the centre that the rescue pass may use:
\* randDist * (cos, sin) with randDist < containerRadius * 0.7 * 0.6
RescueOffsets(offers) ==
    {o \in offers :
        10000 * (o[1] * o[1] + o[2] * o[2])
            < 42 * 42 * containerRadius * containerRadius}

\* an escape test that does not skip the balls on their way out
EscapedAny(b) == BeyondRatio(CenterDist2(b), RESCUE_THRESHOLD_RATIO)

Escaped(b) ==
    /\ ~(b.isExiting \/ b.hasExited)
    /\ BeyondRatio(CenterDist2(b), RESCUE_THRESHOLD_RATIO)

\* rescueEscapedBalls, on ball table bd, with pick[id] the random offset
rescueEscapedBalls(bd, pick) ==
    [id \in DOMAIN bd |->
        IF id \in ListedBalls /\ Escaped(bd[id])
        THEN [bd[id] EXCEPT !.x = containerCenter.x + pick[id][1],
                            !.y = containerCenter.y + pick[id][2],
                            !.vx = 0, !.vy = 0]
        ELSE bd[id]]

\* the lid segments sealContainer adds between the narrow and the wide gap
LidSegments ==
    LET exitHalfAngle == Asin(exitChannel.width + 20, 2 * containerRadius)
        mask == BitOr(CAT_BALL, CAT_EXITING)
    IN  { createWallSegment(i, "lid", mask) :
            i \in { j \in Segments :
                      LET distFromTop == angularDistance(SegmentAngle(j), ExitCenter)
                      IN  /\ ~NumGe(distFromTop, exitGapHalfAngle)
                          /\ ~NumLt(distFromTop, exitHalfAngle) } }

\* the random draws of one pass over the ball table: one per ball among
\* the takers, a fixed value for the others
Picks(bd, takers, choices) ==
    {p \in [DOMAIN bd -> choices] :
        \A id \in DOMAIN bd \ takers : p[id] = CHOOSE c \in choices : TRUE}

\* the entry-gate segments sealContainer builds: none when some exist
NewEntryGate ==
    IF entryGateBodies = {} THEN buildEntryGate(entryAngle, entryGapHalfAngle) ELSE {}

\* a lid built again on every call
NewLidAlways == LidSegments

\* the lid segments sealContainer builds: none when some exist
NewLid == IF lidBodies = {} THEN LidSegments ELSE {}

sealContainer(offers) ==
    /\ LaidOut
    /\ engine' = [engine EXCEPT !.gravityScale = 1]
    /\ \E gate \in {NewEntryGate},
          lid \in {NewLid},
          settled \in {[id \in DOMAIN body |->
                          IF id \in ListedBalls
                          THEN [body[id] EXCEPT !.friction = 10,
                                                !.frictionAir = 10,
                                                !.restitution = 4]
                          ELSE body[id]]} :
           /\ entryGateBodies' = entryGateBodies \cup gate
           /\ lidBodies' = lidBodies \cup lid
           /\ world' = [world EXCEPT !.statics = @ (+) SetToBag(gate) (+) SetToBag(lid)]
           /\ \E pick \in Picks(body, {id \in ListedBalls : Escaped(body[id])},
                                RescueOffsets(offers)) :
                 body' = rescueEscapedBalls(settled, pick)
    /\ containerSealed' = TRUE
    /\ UNCHANGED <<geometryVars, balls, wallBodies, configVars, turbVars,
                   exitGateBody, nextBall, timerVars, countVars, hostVars>>

\* ------------------------------------------------------------------------
\* Turbulence
\* ------------------------------------------------------------------------
\* limitSpeed(ball, maxSpeed) on a ball record
limitSpeed(b, maxSpeed) ==
    LET v2 == b.vx * b.vx + b.vy * b.vy
        speed == Sqrt(v2)
    IN  IF v2 > maxSpeed * maxSpeed
        THEN [b EXCEPT !.vx = Quot(b.vx * maxSpeed, speed),
                       !.vy = Quot(b.vy * maxSpeed, speed)]
        ELSE b

\* startTurbulence(); startVels offers (cos, sin)(angle) * (1.5 + random * 2)
\* in tenths, before the intensity multiplier
startTurbulence(startVels) ==
    /\ LaidOut
    /\ turbulenceActive' = TRUE
    /\ turbulenceTime' = 0
    /\ engine' = [engine EXCEPT !.gravityY = 0, !.gravityScale = 0]
    /\ \E pick \in Picks(body, {id \in ListedBalls : ~body[id].isExiting},
                         startVels) :
          body' = [id \in DOMAIN body |->
                     IF id \in ListedBalls /\ ~body[id].isExiting
                     THEN [body[id] EXCEPT
                             !.vx = Quot(pick[id][1] * swirlMultiplier, 10),
                             !.vy = Quot(pick[id][2] * swirlMultiplier, 10),
                             !.frictionAir = 5,
                             !.restitution = 9]
                     ELSE body[id]]
    /\ UNCHANGED <<world, geometryVars, balls, wallVars, containerSealed,
                   configVars, exitGateBody, nextBall, timerVars, countVars,
                   hostVars>>

\* the engine and the ball table stopTurbulence leaves, given engine e and
\* ball table bd
StopGravity(e) == [e EXCEPT !.gravityY = 1, !.gravityScale = 1]
StopProfile(bd) ==
    [id \in DOMAIN bd |->
        IF id \in ListedBalls /\ ~bd[id].isExiting
        THEN [bd[id] EXCEPT !.frictionAir = 10, !.restitution = 4]
        ELSE bd[id]]

\* a stop that leaves the elapsed time at zero
stopTurbulenceResets ==
    /\ LaidOut
    /\ turbulenceActive' = FALSE
    /\ turbulenceTime' = 0
    /\ engine' = StopGravity(engine)
    /\ body' = StopProfile(body)
    /\ UNCHANGED <<world, geometryVars, balls, wallVars, containerSealed,
                   configVars, exitGateBody, nextBall,
                   timerVars, countVars, hostVars>>

stopTurbulence ==
    /\ LaidOut
    /\ turbulenceActive' = FALSE
    /\ engine' = StopGravity(engine)
    /\ body' = StopProfile(body)
    /\ UNCHANGED <<world, geometryVars, balls, wallVars, containerSealed,
                   configVars, turbulenceTime, exitGateBody, nextBall,
                   timerVars, countVars, hostVars>>

setSwirlMultiplier(v) ==
    /\ swirlMultiplier' = v
    /\ UNCHANGED <<engine, world, geometryVars, balls, wallVars, containerSealed,
                   configBallRadius, turbVars, exitGateBody, body, nextBall,
                   timerVars, countVars, hostVars>>

setBallRadius(r) ==
    /\ configBallRadius' = r
    /\ UNCHANGED <<engine, world, geometryVars, balls, wallVars, containerSealed,
                   swirlMultiplier, turbVars, exitGateBody, body, nextBall,
                   timerVars, countVars, hostVars>>

\* a turbulence pass that does not skip the balls on their way out
applyTurbulenceAll(bd, gust) ==
    IF ~turbulenceActive THEN bd
    ELSE [id \in DOMAIN bd |->
            IF id \in ListedBalls /\ CenterDist2(bd[id]) >= 1
            THEN limitSpeed([bd[id] EXCEPT !.fx = @ + gust[id][1],
                                           !.fy = @ + gust[id][2]],
                            TURBULENCE_SPEED_LIMIT)
            ELSE bd[id]]

\* The turbulence pass on ball table bd.  gust[id] is the sum of the five
\* force terms (vortex, noise, burst, centering, fountain) for that ball:
\* they are functions of sin/cos and Math.random, so the sum is a draw.
applyTurbulence(bd, gust) ==
    IF ~turbulenceActive THEN bd
    ELSE [id \in DOMAIN bd |->
            IF id \in ListedBalls /\ ~bd[id].isExiting /\ CenterDist2(bd[id]) >= 1
            THEN limitSpeed([bd[id] EXCEPT !.fx = @ + gust[id][1],
                                           !.fy = @ + gust[id][2]],
                            TURBULENCE_SPEED_LIMIT)
            ELSE bd[id]]

\* ------------------------------------------------------------------------
\* Ejection
\* ------------------------------------------------------------------------
\* filters that let too much through: everything, or everything not yet exited
AvailableAny == balls
AvailableNotExited == SelectSeq(balls, LAMBDA id : ~body[id].hasExited)

\* balls.filter(b => !b.isExiting && !b.hasExited), in list order
Available == SelectSeq(balls, LAMBDA id : ~body[id].isExiting /\ ~body[id].hasExited)

\* squared distance of ball id to the exit point (channel x, container top)
ExitDist2(id) ==
    Dist2(body[id], exitChannel.x, containerCenter.y - containerRadius)

\* Array.prototype.sort with comparator da - db: a stable sort, so a ball
\* is inserted after every ball that is not farther than it
RECURSIVE InsertByDistanceUnstable(_, _)
RECURSIVE InsertByDistance(_, _)
\* an unstable order: a ball goes before the balls at its own distance
InsertByDistanceUnstable(sorted, id) ==
    IF sorted = <<>> THEN <<id>>
    ELSE IF ExitDist2(Head(sorted)) - ExitDist2(id) < 0
         THEN <<Head(sorted)>> \o InsertByDistanceUnstable(Tail(sorted), id)
         ELSE <<id>> \o sorted
InsertByDistance(sorted, id) ==
    IF sorted = <<>> THEN <<id>>
    ELSE IF ExitDist2(Head(sorted)) - ExitDist2(id) <= 0
         THEN <<Head(sorted)>> \o InsertByDistance(Tail(sorted), id)
         ELSE <<id>> \o sorted
RECURSIVE SortByDistance(_, _)
SortByDistance(todo, sorted) ==
    IF todo = <<>> THEN sorted
    ELSE SortByDistance(Tail(todo), InsertByDistance(sorted, Head(todo)))

\* the ball ejectOneBall picks: available[0] after the sort
Selected == Head(SortByDistance(Available, <<>>))

\* guideBallToExit: the interval task it installs for ball id and callback cb
guideBallToExit(id, cb) ==
    [kind |-> "steer", ball |-> id, cb |-> cb,
     enterY |-> containerCenter.y - containerRadius,
     enterRadius |-> exitChannel.width * 8]      \* width * 0.8, in tenths

\* marking that leaves the collision filter for later
MarkExitingKeepFilter(b, handle) ==
    [b EXCEPT !.isExiting = TRUE,
              !.exitPhase = "rising",
              !.exitTimer = 0,
              !.frictionAir = 20,
              !.steerInterval = handle]

\* the fields ejectOneBall sets on the selected ball
MarkExiting(b, handle) ==
    [b EXCEPT !.isExiting = TRUE,
              !.exitPhase = "rising",
              !.exitTimer = 0,
              !.category = CAT_EXITING,
              !.mask = CAT_WALL,
              !.frictionAir = 20,
              !.steerInterval = handle]

ejectOneBall ==
    /\ LaidOut
    /\ ejectCalls < MaxEjects
    /\ ejectCalls' = ejectCalls + 1
    /\ IF Available = <<>>
       THEN /\ cbLog' = Append(cbLog, [cb |-> ejectCalls + 1, arg |-> NULL, ball |-> 0])
            /\ UNCHANGED <<body, timers, nextHandle>>
       ELSE /\ body' = [body EXCEPT ![Selected] = MarkExiting(@, nextHandle)]
            /\ timers' = (nextHandle :> guideBallToExit(Selected, ejectCalls + 1)) @@ timers
            /\ nextHandle' = nextHandle + 1
            /\ UNCHANGED cbLog
    /\ UNCHANGED <<engine, world, geometryVars, balls, wallVars, containerSealed,
                   configVars, turbVars, exitGateBody, nextBall,
                   ballCreationInterval, createCalls, createdLog>>

\* the balls ejectSpecificBall may take for a name: the eligible balls that
\* carry it, in list order
Named(name) == SelectSeq(Available, LAMBDA id : body[id].name = name)

\* ejectSpecificBall(name, callback): the first eligible ball of that name
\* goes the way ejectOneBall's choice goes; no such ball, callback(null)
ejectSpecificBall(name) ==
    /\ LaidOut
    /\ ejectCalls < MaxEjects
    /\ ejectCalls' = ejectCalls + 1
    /\ IF Named(name) = <<>>
       THEN /\ cbLog' = Append(cbLog, [cb |-> ejectCalls + 1, arg |-> NULL, ball |-> 0])
            /\ UNCHANGED <<body, timers, nextHandle>>
       ELSE /\ body' = [body EXCEPT ![Head(Named(name))] = MarkExiting(@, nextHandle)]
            /\ timers' = (nextHandle :> guideBallToExit(Head(Named(name)), ejectCalls + 1))
                            @@ timers
            /\ nextHandle' = nextHandle + 1
            /\ UNCHANGED cbLog
    /\ UNCHANGED <<engine, world, geometryVars, balls, wallVars, containerSealed,
                   configVars, turbVars, exitGateBody, nextBall,
                   ballCreationInterval, createCalls, createdLog>>

\* Body.applyForce(ball, pos, f): adds f to the force accumulator
applyForce(b, fx, fy) == [b EXCEPT !.fx = @ + fx, !.fy = @ + fy]

\* a splice that misses: the list is left as it was
SpliceNothing(list, id) == list

\* the list without ball id (indexOf + splice)
Splice(list, id) == SelectSeq(list, LAMBDA e : e # id)

\* ball.exitTimer += 16.  The timer is read only through
\* Math.min(exitTimer / RISING_RAMP_DURATION, 1), so the model keeps
\* min(exitTimer, RISING_RAMP_DURATION): past the ramp every value acts alike
AdvanceTimer(t) == Min(t + STEER_PERIOD, RISING_RAMP_DURATION)

\* steer() whose rising branch falls through to the entering test: a ball
\* that is already above the opening leaves "rising" for "upChannel"
SteerFallThrough(b, t) ==
    LET b1 == [b EXCEPT !.exitTimer = AdvanceTimer(@)]
        channel == applyForce(b1, (exitChannel.x - b.x) * CHANNEL_FORCE_HORZ,
                              -CHANNEL_FORCE_UP)
    IN
    CASE b.exitPhase = "rising" ->
           IF 100 * Dist2(b, exitChannel.x, t.enterY) < t.enterRadius * t.enterRadius
           THEN [b1 EXCEPT !.exitPhase =
                    IF b.y < t.enterY - 5 THEN "upChannel" ELSE "entering"]
           ELSE b1
      [] b.exitPhase = "entering" ->
           IF b.y < t.enterY - 5
           THEN [channel EXCEPT !.exitPhase = "upChannel"]
           ELSE channel
      [] b.exitPhase = "upChannel" ->
           IF b.y < exitChannel.topY - 30
           THEN [channel EXCEPT !.hasExited = TRUE]
           ELSE channel
      [] OTHER -> b1

\* steer() on ball record b for task t: the record it leaves, and whether
\* the ball left the simulation in this tick
Steer(b, t) ==
    LET b1 == [b EXCEPT !.exitTimer = AdvanceTimer(@)]
        ramp == Min(b1.exitTimer, RISING_RAMP_DURATION)
        channel == applyForce(b1, (exitChannel.x - b.x) * CHANNEL_FORCE_HORZ,
                              -CHANNEL_FORCE_UP)
    IN
    CASE b.exitPhase = "rising" ->
           LET b2 == limitSpeed(
                       applyForce(b1,
                         (exitChannel.x - b.x) *
                           (RISING_HORZ_BASE + (ramp * RISING_HORZ_RAMP) \div RISING_RAMP_DURATION),
                         -(RISING_FORCE_BASE + (ramp * RISING_FORCE_RAMP) \div RISING_RAMP_DURATION)),
                       RISING_SPEED_LIMIT)
           IN  IF 100 * Dist2(b, exitChannel.x, t.enterY) < t.enterRadius * t.enterRadius
               THEN [b2 EXCEPT !.exitPhase = "entering"]
               ELSE b2
      [] b.exitPhase = "entering" ->
           IF b.y < t.enterY - 5
           THEN [channel EXCEPT !.exitPhase = "upChannel"]
           ELSE channel
      [] b.exitPhase = "upChannel" ->
           IF b.y < exitChannel.topY - 30
           THEN [channel EXCEPT !.hasExited = TRUE]
           ELSE channel
      [] OTHER -> b1

\* one firing of steer() for the task with handle h
SteerStep(h) ==
    /\ h \in DOMAIN timers
    /\ timers[h].kind = "steer"
    /\ LET t == timers[h]
           id == t.ball
           b == body[id]
       IN  IF b.hasExited
           THEN /\ timers' = clearInterval(timers, b.steerInterval)
                /\ UNCHANGED <<body, balls, world, cbLog>>
           ELSE /\ body' = [body EXCEPT ![id] = Steer(b, t)]
                /\ IF Steer(b, t).hasExited
                   THEN /\ timers' = clearInterval(timers, b.steerInterval)
                        /\ world' = [world EXCEPT !.balls = @ \ {id}]
                        /\ balls' = Splice(balls, id)
                        /\ cbLog' = Append(cbLog, [cb |-> t.cb, arg |-> b.name, ball |-> id])
                   ELSE UNCHANGED <<timers, balls, world, cbLog>>
    /\ UNCHANGED <<engine, geometryVars, wallVars, containerSealed, configVars,
                   turbVars, exitGateBody, nextBall, nextHandle,
                   ballCreationInterval, countVars, createdLog>>

\* a firing of steer() within the first MaxTicks ticks of its ejection
SteerTick(h) ==
    /\ h \in DOMAIN timers
    /\ timers[h].kind = "steer"
    /\ body[timers[h].ball].exitTimer < MaxTicks * STEER_PERIOD
    /\ SteerStep(h)

\* ------------------------------------------------------------------------
\* Frame driver
\* ------------------------------------------------------------------------
\* Engine.update: every body in the world gets its drawn position (an
\* offset from the container centre) and velocity, and its force
\* accumulator is cleared
EngineUpdate(bd, draw) ==
    [id \in DOMAIN bd |->
        IF id \in world.balls
        THEN [bd[id] EXCEPT !.x = containerCenter.x + draw[id].dx,
                            !.y = containerCenter.y + draw[id].dy,
                            !.vx = draw[id].vx, !.vy = draw[id].vy,
                            !.fx = 0, !.fy = 0]
        ELSE bd[id]]

\* a correction that leaves the ball where the solver put it
ClampBallStay(b) == b

\* a correction that removes the radial velocity whatever its sign
ClampBallBothWays(b) ==
    LET dx == b.x - containerCenter.x
        dy == b.y - containerCenter.y
        d2 == dx * dx + dy * dy
        dist == Sqrt(d2)
        vDotDist == b.vx * dx + b.vy * dy
    IN  IF BeyondRatio(d2, BOUNDARY_HARD_RATIO)
        THEN [b EXCEPT
                !.x = containerCenter.x
                        + Quot(dx * containerRadius * BOUNDARY_TELEPORT_RATIO, dist * 100),
                !.y = containerCenter.y
                        + Quot(dy * containerRadius * BOUNDARY_TELEPORT_RATIO, dist * 100),
                !.vx = b.vx - Quot(dx * vDotDist, d2),
                !.vy = b.vy - Quot(dy * vDotDist, d2)]
        ELSE b

\* the hard boundary correction of update() on one ball record
ClampBall(b) ==
    LET dx == b.x - containerCenter.x
        dy == b.y - containerCenter.y
        d2 == dx * dx + dy * dy
        dist == Sqrt(d2)
        vDotDist == b.vx * dx + b.vy * dy       \* vDot * dist
    IN  IF BeyondRatio(d2, BOUNDARY_HARD_RATIO)
        THEN LET moved ==
                   [b EXCEPT
                      !.x = containerCenter.x
                              + Quot(dx * containerRadius * BOUNDARY_TELEPORT_RATIO, dist * 100),
                      !.y = containerCenter.y
                              + Quot(dy * containerRadius * BOUNDARY_TELEPORT_RATIO, dist * 100)]
             IN  IF vDotDist > 0
                 THEN [moved EXCEPT !.vx = b.vx - Quot(dx * vDotDist, d2),
                                    !.vy = b.vy - Quot(dy * vDotDist, d2)]
                 ELSE moved
        ELSE b

boundaryClamp(bd) ==
    IF ~containerSealed THEN bd
    ELSE [id \in DOMAIN bd |->
            IF id \in ListedBalls /\ ~(bd[id].isExiting \/ bd[id].hasExited)
            THEN ClampBall(bd[id])
            ELSE bd[id]]

\* a frame that corrects the boundary before the turbulence pass
FrameClampFirst(draw) ==
    applyTurbulence(boundaryClamp(EngineUpdate(body, draw)),
                    [id \in DOMAIN body |-> <<draw[id].gx, draw[id].gy>>])

\* the ball table update(delta) leaves, given the frame's draws
Frame(draw) ==
    boundaryClamp(
        applyTurbulence(EngineUpdate(body, draw),
                        [id \in DOMAIN body |-> <<draw[id].gx, draw[id].gy>>]))

\* update(delta) with the frame's draws
UpdateStep(delta, draw) ==
    /\ LaidOut
    /\ turbulenceTime' = IF turbulenceActive THEN turbulenceTime + delta
                         ELSE turbulenceTime
    /\ body' = Frame(draw)
    /\ UNCHANGED <<engine, world, geometryVars, balls, wallVars, containerSealed,
                   configVars, turbulenceActive, exitGateBody, nextBall,
                   timerVars, countVars, hostVars>>

\* a frame within the first MaxTurbulenceTime ms of an activation
UpdateWith(delta, draw) ==
    /\ turbulenceActive => turbulenceTime + delta <= MaxTurbulenceTime
    /\ UpdateStep(delta, draw)

\* the draws of one frame: one per body in the world
FrameDraws(draws) == Picks(body, world.balls, draws)

update(delta, draws) == \E draw \in FrameDraws(draws) : UpdateWith(delta, draw)

\* ------------------------------------------------------------------------
\* cleanup()
\* ------------------------------------------------------------------------
\* a cleanup that cancels the spawn task only
CleanupHandlesSpawnOnly == {ballCreationInterval}

\* the handles cleanup clears: the spawn handle and each listed ball's
CleanupHandles ==
    {ballCreationInterval} \cup {body[id].steerInterval : id \in ListedBalls}

cleanup ==
    /\ LaidOut
    /\ timers' = [h \in DOMAIN timers \ CleanupHandles |-> timers[h]]
    /\ ballCreationInterval' = 0
    /\ UNCHANGED <<engine, world, geometryVars, balls, wallVars, containerSealed,
                   configVars, turbVars, exitGateBody, body, nextBall,
                   nextHandle, countVars, hostVars>>


\* ------------------------------------------------------------------------
\* Inputs and specifications
\* ------------------------------------------------------------------------
\* What one frame may draw for a ball: the position (offset from the
\* container centre, for radius 200) and velocity the solver step leaves it
\* with, and the turbulence force sum it would receive in that frame.
AtEntry   == [dx |->    0, dy |-> -170, vx |->   0, vy |->   0, gx |->  25000, gy |-> -35000]
InMouth   == [dx |->    0, dy |-> -207, vx |->   0, vy |->   0, gx |->  25000, gy |-> -35000]
PastTop   == [dx |->    0, dy |-> -305, vx |->   0, vy |->   0, gx |->  25000, gy |-> -35000]
FastOut   == [dx |->  120, dy |->  160, vx |->  90, vy |-> 120, gx |->  25000, gy |-> -35000]
NearWall  == [dx |->    0, dy |->  182, vx |->   0, vy |->   0, gx |-> -15000, gy |->  20000]
AtRescue  == [dx |->  108, dy |->  144, vx |->  30, vy |->  40, gx |->  25000, gy |-> -35000]
AtCenter  == [dx |->    0, dy |->    0, vx |->  90, vy |-> 120, gx |->      0, gy |->      0]
\* beyond the hard boundary on the x axis: moving out and along the wall,
\* moving in and along the wall; on the y axis: moving along the wall
Skew      == [dx |->  190, dy |->    0, vx |->  90, vy |-> 120, gx |->  25000, gy |-> -35000]
Inward    == [dx |->  190, dy |->    0, vx |-> -60, vy |->  80, gx |->  25000, gy |-> -35000]
Tangent   == [dx |->    0, dy |->  190, vx |->  50, vy |->   0, gx |->  25000, gy |-> -35000]

\* the ejection path: two balls, spawned left or right of the spawn point,
\* that frames carry to the channel mouth, into it and past its top
EjectInputs ==
    [canvases |-> {[w |-> 430, h |-> 430]},
     radii |-> {24},
     names |-> {<<"a", "b">>},
     jitters |-> {-30, 30},
     deltas |-> {16},
     draws |-> {AtEntry, InMouth, PastTop}]

EjectNext ==
    \/ init /\ Stay
    \/ \E c \in EjectInputs.canvases : layout(c.w, c.h) /\ Stay
    \/ \E n \in EjectInputs.names, r \in EjectInputs.radii : createBalls(n, r) /\ Stay
    \/ \E h \in DOMAIN timers : SpawnTick(h, EjectInputs.jitters) /\ Stay
    \/ ejectOneBall /\ Stay
    \/ \E h \in DOMAIN timers : SteerTick(h) /\ Stay
    \/ \E dt \in EjectInputs.deltas : update(dt, EjectInputs.draws) /\ Stay
    \/ cleanup /\ Stay
SpecEject == Init /\ [][EjectNext]_vars

\* frames of a sealed, turbulent drum: a frame may throw a ball out fast or
\* leave it just inside the hard boundary
FrameInputs ==
    [canvases |-> {[w |-> 430, h |-> 430]},
     radii |-> {24},
     names |-> {<<"a", "b">>},
     jitters |-> {30},
     deltas |-> {16},
     rescues |-> {<<0, 0>>},
     startVels |-> {<<0, -20>>},
     draws |-> {FastOut, NearWall}]

FrameNext ==
    \/ init /\ Stay
    \/ \E c \in FrameInputs.canvases : layout(c.w, c.h) /\ Stay
    \/ \E n \in FrameInputs.names, r \in FrameInputs.radii : createBalls(n, r) /\ Stay
    \/ \E h \in DOMAIN timers : SpawnTick(h, FrameInputs.jitters) /\ Stay
    \/ sealContainer(FrameInputs.rescues) /\ Stay
    \/ startTurbulence(FrameInputs.startVels) /\ Stay
    \/ ejectOneBall /\ Stay
    \/ \E h \in DOMAIN timers : SteerTick(h) /\ Stay
    \/ \E dt \in FrameInputs.deltas : update(dt, FrameInputs.draws) /\ Stay
SpecFrame == Init /\ [][FrameNext]_vars

\* the whole interface on a one-ball drum
Inputs ==
    [canvases |-> {[w |-> 430, h |-> 430]},
     radii |-> {24},
     swirls |-> {75},
     names |-> {<<"a">>},
     jitters |-> {30},
     deltas |-> {16},
     rescues |-> {<<0, 0>>},
     startVels |-> {<<0, -20>>},
     draws |-> {FastOut, NearWall}]

Next ==
    \/ init /\ Stay
    \/ \E c \in Inputs.canvases : layout(c.w, c.h) /\ Stay
    \/ \E r \in Inputs.radii : setBallRadius(r) /\ Stay
    \/ \E v \in Inputs.swirls : setSwirlMultiplier(v) /\ Stay
    \/ \E n \in Inputs.names, r \in Inputs.radii : createBalls(n, r) /\ Stay
    \/ \E h \in DOMAIN timers : SpawnTick(h, Inputs.jitters) /\ Stay
    \/ sealContainer(Inputs.rescues) /\ Stay
    \/ startTurbulence(Inputs.startVels) /\ Stay
    \/ stopTurbulence /\ Stay
    \/ openExitGate /\ Stay
    \/ closeExitGate /\ Stay
    \/ ejectOneBall /\ Stay
    \/ \E h \in DOMAIN timers : SteerTick(h) /\ Stay
    \/ \E dt \in Inputs.deltas : update(dt, Inputs.draws) /\ Stay
    \/ cleanup /\ Stay
Spec == Init /\ [][Next]_vars

\* collision filters: two balls in a drum that is sealed and whose exit gate
\* opens and closes while balls are ejected
GateInputs ==
    [canvases |-> {[w |-> 430, h |-> 430]},
     radii |-> {24},
     names |-> {<<"a", "b">>},
     jitters |-> {30},
     deltas |-> {16},
     rescues |-> {<<0, 0>>},
     draws |-> {InMouth}]

GateNext ==
    \/ init /\ Stay
    \/ \E c \in GateInputs.canvases : layout(c.w, c.h) /\ Stay
    \/ \E n \in GateInputs.names, r \in GateInputs.radii : createBalls(n, r) /\ Stay
    \/ \E h \in DOMAIN timers : SpawnTick(h, GateInputs.jitters) /\ Stay
    \/ sealContainer(GateInputs.rescues) /\ Stay
    \/ openExitGate /\ Stay
    \/ closeExitGate /\ Stay
    \/ ejectOneBall /\ Stay
    \/ \E h \in DOMAIN timers : SteerTick(h) /\ Stay
    \/ \E dt \in GateInputs.deltas : update(dt, GateInputs.draws) /\ Stay
SpecGate == Init /\ [][GateNext]_vars

\* loading: the frame loop runs while the spawn task drops the balls in,
\* then the drum is sealed; the interval timer keeps firing until its
\* callback clears it
LoadInputs ==
    [canvases |-> {[w |-> 430, h |-> 430]},
     radii |-> {20, 24},
     names |-> {<<>>, <<"b", "a">>},
     jitters |-> {-30, 30},
     deltas |-> {16},
     rescues |-> {<<0, 0>>},
     draws |-> {FastOut, NearWall}]

LoadNext ==
    \/ init /\ Stay
    \/ \E c \in LoadInputs.canvases : layout(c.w, c.h) /\ Stay
    \/ \E n \in LoadInputs.names, r \in LoadInputs.radii : createBalls(n, r) /\ Stay
    \/ \E h \in DOMAIN timers : SpawnTick(h, LoadInputs.jitters) /\ Stay
    \/ sealContainer(LoadInputs.rescues) /\ Stay
    \/ \E dt \in LoadInputs.deltas : update(dt, LoadInputs.draws) /\ Stay
SpecLoad ==
    /\ Init
    /\ [][LoadNext]_vars
    /\ WF_vars(\E h \in DOMAIN timers : SpawnTick(h, LoadInputs.jitters) /\ Stay)

\* sealing: frames leave a ball outside the drum or exactly on the rescue
\* threshold, balls may be on their way out, and the rescue pass is offered
\* the centre, a point just inside the safe radius and one just outside it
SealInputs ==
    [canvases |-> {[w |-> 430, h |-> 430]},
     radii |-> {24},
     names |-> {<<"a", "b">>},
     jitters |-> {30},
     deltas |-> {16},
     rescues |-> {<<0, 0>>, <<50, -66>>, <<60, -60>>},
     draws |-> {FastOut, AtRescue}]

SealNext ==
    \/ init /\ Stay
    \/ \E c \in SealInputs.canvases : layout(c.w, c.h) /\ Stay
    \/ \E n \in SealInputs.names, r \in SealInputs.radii : createBalls(n, r) /\ Stay
    \/ \E h \in DOMAIN timers : SpawnTick(h, SealInputs.jitters) /\ Stay
    \/ sealContainer(SealInputs.rescues) /\ Stay
    \/ ejectOneBall /\ Stay
    \/ \E dt \in SealInputs.deltas : update(dt, SealInputs.draws) /\ Stay
SpecSeal == Init /\ [][SealNext]_vars

\* building: drums of three sizes for two ball sizes.  Radius 200 leaves
\* the exit gap clear of the entry gap for both; radius 70 only for the
\* small ball; radius 45 is smaller than the half channel plus its margin
\* for the large ball
BuildInputs ==
    [canvases |-> {[w |-> 430, h |-> 430], [w |-> 170, h |-> 170],
                   [w |-> 120, h |-> 120]},
     radii |-> {10, 24},
     names |-> {<<"a">>},
     jitters |-> {10},
     rescues |-> {<<0, 0>>}]

BuildNext ==
    \/ init /\ Stay
    \/ \E r \in BuildInputs.radii : setBallRadius(r) /\ Stay
    \/ \E c \in BuildInputs.canvases : layout(c.w, c.h) /\ Stay
    \/ \E n \in BuildInputs.names, r \in BuildInputs.radii : createBalls(n, r) /\ Stay
    \/ \E h \in DOMAIN timers : SpawnTick(h, BuildInputs.jitters) /\ Stay
    \/ sealContainer(BuildInputs.rescues) /\ Stay
    \/ openExitGate /\ Stay
    \/ closeExitGate /\ Stay
SpecBuild == Init /\ [][BuildNext]_vars

\* mixing: a loaded drum is sealed, set spinning and stopped at two
\* intensities while frames of 8 ms run and a ball may be selected; a frame
\* may throw a ball out at 15 px/step or leave it on the centre at 15 px/step
TurbInputs ==
    [canvases |-> {[w |-> 430, h |-> 430]},
     radii |-> {24},
     swirls |-> {10, 75},
     names |-> {<<"a", "b">>},
     jitters |-> {30},
     deltas |-> {8},
     rescues |-> {<<0, 0>>},
     startVels |-> {<<21, 28>>},
     draws |-> {FastOut, AtCenter}]

TurbNext ==
    \/ init /\ Stay
    \/ \E c \in TurbInputs.canvases : layout(c.w, c.h) /\ Stay
    \/ \E v \in TurbInputs.swirls : setSwirlMultiplier(v) /\ Stay
    \/ \E n \in TurbInputs.names, r \in TurbInputs.radii : createBalls(n, r) /\ Stay
    \/ \E h \in DOMAIN timers : SpawnTick(h, TurbInputs.jitters) /\ Stay
    \/ sealContainer(TurbInputs.rescues) /\ Stay
    \/ startTurbulence(TurbInputs.startVels) /\ Stay
    \/ stopTurbulence /\ Stay
    \/ ejectOneBall /\ Stay
    \/ \E dt \in TurbInputs.deltas : update(dt, TurbInputs.draws) /\ Stay
SpecTurb == Init /\ [][TurbNext]_vars

\* an ejection carried through: the gate is opened and never closed, the
\* controller selects the next ball only when none is on its way out
\* (app.js 222-246), guidance ticks alternate with frames for as long as
\* the ejection takes, and nothing cancels them
ExitInputs ==
    [canvases |-> {[w |-> 430, h |-> 430]},
     radii |-> {24},
     names |-> {<<"a">>},
     jitters |-> {30},
     deltas |-> {16},
     draws |-> {AtEntry, InMouth, PastTop}]

\* the ball of task h carries no guidance force: steer() has not run on it
\* since the last frame (the interval and the frame period are both 16 ms)
Unsteered(h) ==
    /\ timers[h].kind = "steer"
    /\ body[timers[h].ball].fx = 0 /\ body[timers[h].ball].fy = 0
\* the balls a run of this specification creates: one per name, numbered
\* from 1
ExitIds == UNION {DOMAIN n : n \in ExitInputs.names}
NoneExiting == \A id \in ListedBalls : ~body[id].isExiting

ExitNext ==
    \/ init /\ Stay
    \/ \E c \in ExitInputs.canvases : layout(c.w, c.h) /\ Stay
    \/ \E n \in ExitInputs.names, r \in ExitInputs.radii : createBalls(n, r) /\ Stay
    \/ \E h \in DOMAIN timers : SpawnTick(h, ExitInputs.jitters) /\ Stay
    \/ openExitGate /\ Stay
    \/ NoneExiting /\ ejectOneBall /\ Stay
    \/ \E h \in DOMAIN timers : Unsteered(h) /\ SteerStep(h) /\ Stay
    \/ \E dt \in ExitInputs.deltas : update(dt, ExitInputs.draws) /\ Stay

\* a frame in which the solver, with the gate out of the way, leaves the
\* guided ball id at draw d
DeliverTo(id, d) ==
    /\ ~isExitGateClosed
    /\ id \in world.balls
    /\ body[id].isExiting
    /\ \E dt \in ExitInputs.deltas, draw \in FrameDraws(ExitInputs.draws) :
          draw[id] = d /\ UpdateWith(dt, draw)
    /\ Stay

\* a guidance tick of ball id that finds the ball where its phase ends
AdvanceTick(id) ==
    \E h \in DOMAIN timers :
        /\ timers[h].kind = "steer"
        /\ timers[h].ball = id
        /\ Unsteered(h)
        /\ SteerStep(h)
        /\ Stay
        /\ body'[id].exitPhase # body[id].exitPhase \/ body'[id].hasExited

\* Fairness: the interval timer keeps firing steer(), frames keep coming,
\* and the guidance forces do their work: the solver brings a guided ball
\* to the channel mouth and up the channel again and again, and a tick
\* samples it there.
ExitFairness ==
    \A id \in ExitIds :
        /\ SF_vars(AdvanceTick(id))
        /\ WF_vars(DeliverTo(id, InMouth))
        /\ WF_vars(DeliverTo(id, PastTop))
SpecExit == Init /\ [][ExitNext]_vars /\ ExitFairness

\* replay by name: three balls, two of them with the same name, are asked
\* for by name (one name is on no ball) while frames carry them to the
\* channel mouth, into it and past its top
NamedInputs ==
    [canvases |-> {[w |-> 430, h |-> 430]},
     radii |-> {24},
     names |-> {<<"a", "b", "a">>},
     asked |-> {"a", "b", "z"},
     jitters |-> {30},
     deltas |-> {16},
     draws |-> {InMouth, PastTop}]

NamedNext ==
    \/ init /\ Stay
    \/ \E c \in NamedInputs.canvases : layout(c.w, c.h) /\ Stay
    \/ \E n \in NamedInputs.names, r \in NamedInputs.radii : createBalls(n, r) /\ Stay
    \/ \E h \in DOMAIN timers : SpawnTick(h, NamedInputs.jitters) /\ Stay
    \/ \E name \in NamedInputs.asked : ejectSpecificBall(name) /\ Stay
    \/ \E h \in DOMAIN timers : SteerTick(h) /\ Stay
    \/ \E dt \in NamedInputs.deltas : update(dt, NamedInputs.draws) /\ Stay
SpecNamed == Init /\ [][NamedNext]_vars

\* placing the drum: windows from none at all to a wide desktop, portrait
\* and landscape, canvases from below the margins to most of the window
GeomInputs ==
    [viewports |-> {[w |-> 0, h |-> 0], [w |-> 390, h |-> 844],
                    [w |-> 1344, h |-> 768], [w |-> 1920, h |-> 1080],
                    [w |-> 3000, h |-> 400]},
     canvases |-> {[w |-> 20, h |-> 500], [w |-> 30, h |-> 30],
                   [w |-> 31, h |-> 45], [w |-> 120, h |-> 120],
                   [w |-> 150, h |-> 789], [w |-> 430, h |-> 430],
                   [w |-> 1100, h |-> 713], [w |-> 1680, h |-> 1025]},
     radii |-> {10, 24, 40}]

GeomNext ==
    \/ init /\ Stay
    \/ \E vp \in GeomInputs.viewports : resize(vp)
    \/ \E r \in GeomInputs.radii : setBallRadius(r) /\ Stay
    \/ \E c \in GeomInputs.canvases : layout(c.w, c.h) /\ Stay
SpecGeom == Init /\ [][GeomNext]_vars

\* frames at the boundary: the drum may be sealed or not, turbulent or not,
\* and a frame leaves each of two balls inside, or beyond the hard boundary
\* moving outwards, inwards or along the wall
ClampInputs ==
    [canvases |-> {[w |-> 430, h |-> 430]},
     radii |-> {24},
     names |-> {<<"a", "b">>},
     jitters |-> {30},
     deltas |-> {16},
     rescues |-> {<<0, 0>>},
     startVels |-> {<<21, 28>>},
     draws |-> {NearWall, FastOut, Skew, Inward, Tangent}]

ClampNext ==
    \/ init /\ Stay
    \/ \E c \in ClampInputs.canvases : layout(c.w, c.h) /\ Stay
    \/ \E n \in ClampInputs.names, r \in ClampInputs.radii : createBalls(n, r) /\ Stay
    \/ \E h \in DOMAIN timers : SpawnTick(h, ClampInputs.jitters) /\ Stay
    \/ sealContainer(ClampInputs.rescues) /\ Stay
    \/ startTurbulence(ClampInputs.startVels) /\ Stay
    \/ \E dt \in ClampInputs.deltas : update(dt, ClampInputs.draws) /\ Stay
SpecClamp == Init /\ [][ClampNext]_vars

\* ------------------------------------------------------------------------
\* The synchronisation service (SyncService.gs).  Every call is a script
\* execution of its own; executions run side by side and meet only in the
\* script cache and the script lock, so each call is a sequence of steps,
\* one per access to the cache or the lock.
\* ------------------------------------------------------------------------
LOG_LIMIT == 200
\* calls made in one behaviour
MaxRequests == 3

\* String(version): the decimal digits of a natural number
RECURSIVE StringOf(_)
StringOf(n) == IF n < 10 THEN <<n>> ELSE StringOf(n \div 10) \o <<n % 10>>
\* parseInt(str, 10) of a string of digits
RECURSIVE parseInt(_)
parseInt(str) ==
    IF Len(str) = 1 THEN str[1]
    ELSE parseInt(SubSeq(str, 1, Len(str) - 1)) * 10 + str[Len(str)]
\* versionStr ? parseInt(versionStr, 10) : 0
VersionOf(versionStr) == IF versionStr = <<>> THEN 0 ELSE parseInt(versionStr)
\* str ? JSON.parse(str) : fallback
ParseOr(str, fallback) == IF str = <<>> THEN fallback ELSE str[1]

\* a payload carries the fields the service reads; a field the caller left
\* out is the empty value, which the service treats alike (|| and &&)
Payload(names, name, hasRemaining) ==
    [names |-> names, settings |-> "{}", name |-> name, hasRemaining |-> hasRemaining]
Command(action, payload) == [action |-> action, payload |-> payload]
\* the arguments of api_pushCommand: <<>> is a call without a command
SyncInputs ==
    [commands |-> { <<>>,
                    <<Command("INIT", <<>>)>>,
                    <<Command("INIT", <<Payload(<<"a", "b">>, "", FALSE)>>)>>,
                    <<Command("EJECT", <<Payload(<<>>, "a", FALSE)>>)>>,
                    <<Command("RESET", <<>>)>> },
     sinces |-> {0, 1, 2}]

DefaultSnapshot ==
    [state |-> "IDLE", names |-> <<>>, settings |-> "{}", winners |-> <<>>,
     turbulenceActive |-> FALSE, version |-> 0]
\* _updateSnapshot throws where it reads a field of a payload that is not there
SnapshotThrows(command) == command.action = "INIT" /\ command.payload = <<>>
\* the switch of _updateSnapshot
SnapshotCase(snapshot, command) ==
    LET a == command.action
        p == command.payload
    IN  IF a = "INIT"
        THEN [snapshot EXCEPT !.state = "LOADING", !.names = p[1].names,
                              !.settings = p[1].settings, !.winners = <<>>,
                              !.turbulenceActive = FALSE]
        ELSE IF a = "SEALED" THEN [snapshot EXCEPT !.state = "READY"]
        ELSE IF a = "START_TURBULENCE"
        THEN [snapshot EXCEPT !.state = "SPINNING", !.turbulenceActive = TRUE]
        ELSE IF a = "STOP_TURBULENCE"
        THEN [snapshot EXCEPT !.state = "READY", !.turbulenceActive = FALSE]
        ELSE IF a = "DRAW_START" THEN [snapshot EXCEPT !.state = "DRAWING"]
        ELSE IF a = "EJECT"
        THEN IF p # <<>> /\ p[1].name # ""
             THEN [snapshot EXCEPT !.winners = Append(@, p[1].name)]
             ELSE snapshot
        ELSE IF a = "BATCH_DONE"
        THEN [snapshot EXCEPT
                !.state = IF p # <<>> /\ p[1].hasRemaining THEN "READY" ELSE "COMPLETE",
                !.turbulenceActive = FALSE]
        ELSE IF a = "RESET"
        THEN [snapshot EXCEPT !.state = "IDLE", !.winners = <<>>,
                              !.turbulenceActive = FALSE]
        ELSE snapshot
\* _updateSnapshot(cache, command, version): the cache it leaves
updateSnapshot(c, command, version) ==
    LET snapshot == ParseOr(c.snapshot, DefaultSnapshot)
    IN  [c EXCEPT !.snapshot =
            <<[SnapshotCase(snapshot, command) EXCEPT !.version = version]>>]

\* commands.slice(-200) once the list is longer than 200
Trim(commands) ==
    IF Len(commands) > LOG_LIMIT
    THEN SubSeq(commands, Len(commands) - LOG_LIMIT + 1, Len(commands))
    ELSE commands

\* what a call hands back: a value, or an exception
Returned(version, commands, snapshot) ==
    [threw |-> FALSE, version |-> version, commands |-> commands, snapshot |-> snapshot]
Thrown == [threw |-> TRUE, version |-> 0, commands |-> <<>>, snapshot |-> <<>>]

\* what SyncService_getSyncState(since) hands back of a cache read whole at
\* one instant
Answer(c, since) ==
    LET currentVersion == VersionOf(c.version)
    IN  IF currentVersion <= since
        THEN Returned(currentVersion, <<>>, <<>>)
        ELSE Returned(currentVersion,
                      SelectSeq(ParseOr(c.commands, <<>>),
                                LAMBDA cmd : cmd.version > since),
                      IF since = 0 THEN c.snapshot ELSE <<>>)

\* a call in flight: pc is the statement it is at, the rest its locals.
\* Two fields are history and no local of the code: held is the version
\* key as it was when the call got the lock, views the answers that the
\* cache, read whole, would have given at each instant since the call began.
Request(op, pc, command, since) ==
    [op |-> op, pc |-> pc, command |-> command, since |-> since,
     version |-> 0, commands |-> <<>>, snapshot |-> <<>>, failed |-> FALSE,
     held |-> <<>>, views |-> {}]
Running(r) == r \in DOMAIN proc /\ proc[r].pc # "done"
\* the cache became c: every getSyncState in flight could have seen it
Observe(p, c) ==
    [r \in DOMAIN p |->
        IF p[r].op = "get" /\ p[r].pc # "done"
        THEN [p[r] EXCEPT !.views = @ \cup {Answer(c, p[r].since)}]
        ELSE p[r]]
Outside == UNCHANGED <<physVars, viewport, appVars, sheetVars>>

\* api_pushCommand(command) is called
pushCommand(command) ==
    /\ Len(proc) < MaxRequests
    /\ proc' = Append(proc, Request("push", "waitLock", command, 0))
    /\ UNCHANGED <<cache, lock, replies>>
    /\ Outside
\* lock.waitLock(5000) gets the lock
waitLock(r) ==
    /\ Running(r) /\ proc[r].pc = "waitLock"
    /\ lock = 0
    /\ lock' = r
    /\ proc' = [proc EXCEPT ![r].pc = "getVersion", ![r].held = cache.version]
    /\ UNCHANGED <<cache, replies>>
    /\ Outside
\* lock.waitLock(5000) gives up: it throws outside the try block
waitLockTimeout(r) ==
    /\ Running(r) /\ proc[r].pc = "waitLock"
    /\ lock # 0
    /\ proc' = [proc EXCEPT ![r].pc = "done"]
    /\ replies' = (r :> Thrown) @@ replies
    /\ UNCHANGED <<cache, lock>>
    /\ Outside
\* cache.get(CACHE_KEY_VERSION); version++
pushGetVersion(r) ==
    /\ Running(r) /\ proc[r].pc = "getVersion" /\ proc[r].op = "push"
    /\ proc' = [proc EXCEPT ![r].pc = "getCommands",
                            ![r].version = VersionOf(cache.version) + 1]
    /\ UNCHANGED <<cache, lock, replies>>
    /\ Outside
\* cache.get(CACHE_KEY_COMMANDS); the command is stamped and appended, the
\* list trimmed.  Stamping throws if there is no command.
pushGetCommands(r) ==
    /\ Running(r) /\ proc[r].pc = "getCommands" /\ proc[r].op = "push"
    /\ LET commands == ParseOr(cache.commands, <<>>)
           p == proc[r]
       IN  proc' = IF p.command = <<>>
                   THEN [proc EXCEPT ![r].pc = "finally", ![r].failed = TRUE]
                   ELSE [proc EXCEPT
                           ![r].pc = "putCommands",
                           ![r].commands =
                               Trim(Append(commands,
                                           [action |-> p.command[1].action,
                                            payload |-> p.command[1].payload,
                                            version |-> p.version]))]
    /\ UNCHANGED <<cache, lock, replies>>
    /\ Outside
\* cache.put(CACHE_KEY_COMMANDS, ...)
putCommands(r) ==
    /\ Running(r) /\ proc[r].pc = "putCommands"
    /\ cache' = [cache EXCEPT !.commands = <<proc[r].commands>>]
    /\ proc' = Observe([proc EXCEPT ![r].pc = "putVersion"], cache')
    /\ UNCHANGED <<lock, replies>>
    /\ Outside
\* cache.put(CACHE_KEY_VERSION, String(version))
putVersion(r) ==
    /\ Running(r) /\ proc[r].pc = "putVersion"
    /\ cache' = [cache EXCEPT !.version = StringOf(proc[r].version)]
    /\ proc' = Observe([proc EXCEPT ![r].pc = "updateSnapshot"], cache')
    /\ UNCHANGED <<lock, replies>>
    /\ Outside
\* _updateSnapshot(cache, command, version)
pushUpdateSnapshot(r) ==
    /\ Running(r) /\ proc[r].pc = "updateSnapshot"
    /\ IF SnapshotThrows(proc[r].command[1])
       THEN /\ proc' = [proc EXCEPT ![r].pc = "finally", ![r].failed = TRUE]
            /\ UNCHANGED cache
       ELSE /\ cache' = updateSnapshot(cache, proc[r].command[1], proc[r].version)
            /\ proc' = Observe([proc EXCEPT ![r].pc = "finally"], cache')
    /\ UNCHANGED <<lock, replies>>
    /\ Outside
\* finally { lock.releaseLock() }, and the call ends
releaseLock(r) ==
    /\ Running(r) /\ proc[r].pc = "finally"
    /\ lock' = IF lock = r THEN 0 ELSE lock
    /\ proc' = [proc EXCEPT ![r].pc = "done"]
    /\ replies' = (r :> IF proc[r].failed THEN Thrown
                        ELSE Returned(proc[r].version, <<>>, <<>>)) @@ replies
    /\ UNCHANGED cache
    /\ Outside

\* api_getSyncState(sinceVersion) is called
getSyncState(since) ==
    /\ Len(proc) < MaxRequests
    /\ proc' = Append(proc, [Request("get", "getVersion", <<>>, since)
                               EXCEPT !.views = {Answer(cache, since)}])
    /\ UNCHANGED <<cache, lock, replies>>
    /\ Outside
\* cache.get(CACHE_KEY_VERSION), and the early return
getGetVersion(r) ==
    /\ Running(r) /\ proc[r].pc = "getVersion" /\ proc[r].op = "get"
    /\ LET currentVersion == VersionOf(cache.version)
       IN  IF currentVersion <= proc[r].since
           THEN /\ proc' = [proc EXCEPT ![r].pc = "done", ![r].version = currentVersion]
                /\ replies' = (r :> Returned(currentVersion, <<>>, <<>>)) @@ replies
           ELSE /\ proc' = [proc EXCEPT
                              ![r].pc = IF proc[r].since = 0 THEN "getSnapshot"
                                        ELSE "getCommands",
                              ![r].version = currentVersion]
                /\ UNCHANGED replies
    /\ UNCHANGED <<cache, lock>>
    /\ Outside
\* cache.get(CACHE_KEY_SNAPSHOT)
getGetSnapshot(r) ==
    /\ Running(r) /\ proc[r].pc = "getSnapshot"
    /\ proc' = [proc EXCEPT ![r].pc = "getCommands", ![r].snapshot = cache.snapshot]
    /\ UNCHANGED <<cache, lock, replies>>
    /\ Outside
\* cache.get(CACHE_KEY_COMMANDS), the filter and the return
getGetCommands(r) ==
    /\ Running(r) /\ proc[r].pc = "getCommands" /\ proc[r].op = "get"
    /\ LET allCommands == ParseOr(cache.commands, <<>>)
           newCommands == SelectSeq(allCommands,
                                    LAMBDA cmd : cmd.version > proc[r].since)
       IN  /\ proc' = [proc EXCEPT ![r].pc = "done", ![r].commands = newCommands]
           /\ replies' = (r :> Returned(proc[r].version, newCommands,
                                        proc[r].snapshot)) @@ replies
    /\ UNCHANGED <<cache, lock>>
    /\ Outside

\* api_clearSync(): cache.removeAll of the three keys
clearSync ==
    /\ Len(proc) < MaxRequests
    /\ cache' = EmptyCache
    /\ proc' = Observe(Append(proc, Request("clear", "done", <<>>, 0)), cache')
    /\ replies' = ((Len(proc) + 1) :> Returned(0, <<>>, <<>>)) @@ replies
    /\ UNCHANGED lock
    /\ Outside

SyncNext ==
    \/ \E command \in SyncInputs.commands : pushCommand(command)
    \/ \E since \in SyncInputs.sinces : getSyncState(since)
    \/ clearSync
    \/ \E r \in 1 .. MaxRequests :
        \/ waitLock(r)
        \/ waitLockTimeout(r)
        \/ pushGetVersion(r)
        \/ pushGetCommands(r)
        \/ putCommands(r)
        \/ putVersion(r)
        \/ pushUpdateSnapshot(r)
        \/ releaseLock(r)
        \/ getGetVersion(r)
        \/ getGetSnapshot(r)
        \/ getGetCommands(r)
SpecSync == Init /\ [][SyncNext]_vars

\* ------------------------------------------------------------------------
\* One master and one viewer on the service.  The master makes its calls
\* one after the other; the viewer polls, and hands each poll the version
\* that its poll before returned.
\* ------------------------------------------------------------------------
MaxCalls == 5
\* the commands of a master: each with the payload its action needs
PollInputs ==
    {c \in SyncInputs.commands : c # <<>> /\ ~SnapshotThrows(c[1])}
PollIds == {r \in DOMAIN proc : proc[r].op = "get"}
MasterIds == DOMAIN proc \ PollIds
\* the version the viewer has kept of its last poll, 0 before the first
lastVersion ==
    IF PollIds = {} THEN 0
    ELSE replies[CHOOSE r \in PollIds : \A q \in PollIds : q <= r].version
\* the viewer polls: api_getSyncState(lastVersion)
viewerPoll ==
    /\ Len(proc) < MaxCalls
    /\ \A r \in PollIds : ~Running(r)
    /\ proc' = Append(proc, [Request("get", "getVersion", <<>>, lastVersion)
                               EXCEPT !.views = {Answer(cache, lastVersion)}])
    /\ UNCHANGED <<cache, lock, replies>>
    /\ Outside
\* the master calls api_pushCommand(command)
masterPush(command) ==
    /\ Len(proc) < MaxCalls
    /\ \A r \in MasterIds : ~Running(r)
    /\ proc' = Append(proc, Request("push", "waitLock", command, 0))
    /\ UNCHANGED <<cache, lock, replies>>
    /\ Outside
\* the master calls api_clearSync()
masterClear ==
    /\ Len(proc) < MaxCalls
    /\ \A r \in MasterIds : ~Running(r)
    /\ cache' = EmptyCache
    /\ proc' = Observe(Append(proc, Request("clear", "done", <<>>, 0)), cache')
    /\ replies' = ((Len(proc) + 1) :> Returned(0, <<>>, <<>>)) @@ replies
    /\ UNCHANGED lock
    /\ Outside

PollNext ==
    \/ \E command \in PollInputs : masterPush(command)
    \/ viewerPoll
    \/ masterClear
    \/ \E r \in 1 .. MaxCalls :
        \/ waitLock(r)
        \/ pushGetVersion(r)
        \/ pushGetCommands(r)
        \/ putCommands(r)
        \/ putVersion(r)
        \/ pushUpdateSnapshot(r)
        \/ releaseLock(r)
        \/ getGetVersion(r)
        \/ getGetSnapshot(r)
        \/ getGetCommands(r)
SpecPoll == Init /\ [][PollNext]_vars

\* ------------------------------------------------------------------------
\* The spreadsheet (SheetService.gs).  A cell is its text, a sequence of
\* characters; String(cell) is that text.  The name-list sheet is the sheet
\* "list", its title row is left out; the time stamp of a record row is
\* left out as well.
\* ------------------------------------------------------------------------
MaxRows == 3
MaxRecords == 1
TRUE_TEXT == <<"T", "R", "U", "E">>
\* what the user of the spreadsheet types into a row, and the arguments of
\* api_recordWinner
SheetInputs ==
    [rows |-> [name : {<<"a">>, <<" ", "a">>, <<"b">>},
               won : {<<>>, <<"t", "r", "u", "e">>},
               absent : {<<>>, TRUE_TEXT}],
     names |-> {<<"a">>, <<"b">>},
     rounds |-> {0, 2},
     sheetNames |-> {"list", "none"}]

\* String.prototype.trim
RECURSIVE trimStart(_)
trimStart(s) == IF s # <<>> /\ Head(s) = " " THEN trimStart(Tail(s)) ELSE s
RECURSIVE trimEnd(_)
trimEnd(s) ==
    IF s # <<>> /\ s[Len(s)] = " " THEN trimEnd(SubSeq(s, 1, Len(s) - 1)) ELSE s
trim(s) == trimEnd(trimStart(s))
\* String.prototype.toUpperCase
upperCase(c) ==
    CASE c = "a" -> "A" [] c = "b" -> "B" [] c = "e" -> "E"
      [] c = "r" -> "R" [] c = "t" -> "T" [] c = "u" -> "U"
      [] OTHER -> c
toUpperCase(s) == [i \in DOMAIN s |-> upperCase(s[i])]

\* _getSheet(name): <<>> is null
getSheet(name) == IF name = "list" THEN <<nameSheet>> ELSE <<>>
\* the loop of SheetService_getNames over the data rows
unflagged(data) ==
    LET listed(row) == /\ trim(row.name) # <<>>
                       /\ toUpperCase(trim(row.won)) # TRUE_TEXT
                       /\ toUpperCase(trim(row.absent)) # TRUE_TEXT
        rows == SelectSeq(data, listed)
    IN  [i \in DOMAIN rows |-> trim(rows[i].name)]
\* SheetService_getNames(sheetName)
getNames(sheetName) ==
    LET sheet == getSheet(sheetName)
    IN  IF sheet = <<>> THEN <<>> ELSE unflagged(sheet[1])
\* _markWonInNameSheet(name, sheetName): the data rows it leaves
markWonInNameSheet(name, sheetName) ==
    LET sheet == getSheet(sheetName)
        hits == {i \in DOMAIN nameSheet : trim(nameSheet[i].name) = name}
    IN  IF sheet = <<>> \/ Len(nameSheet) < 1 \/ hits = {}
        THEN nameSheet
        ELSE [nameSheet EXCEPT
                ![CHOOSE i \in hits : \A j \in hits : i <= j].won = TRUE_TEXT]
\* api_recordWinner(name, round, sheetName)
recordWinner(name, round, sheetName) ==
    /\ recordSheet # <<>> => Len(recordSheet[1]) < MaxRecords
    /\ nameSheet' = markWonInNameSheet(name, sheetName)
    /\ recordSheet' =
         IF recordSheet = <<>> THEN recordSheet
         ELSE <<Append(recordSheet[1],
                       [name |-> name,
                        round |-> IF round = 0 THEN 1 ELSE round,
                        sheetName |-> sheetName])>>
    /\ UNCHANGED <<physVars, viewport, appVars, syncVars>>
\* the user of the spreadsheet adds a row to the name list
editNameSheet(row) ==
    /\ Len(nameSheet) < MaxRows
    /\ nameSheet' = Append(nameSheet, row)
    /\ UNCHANGED <<physVars, viewport, appVars, syncVars, recordSheet>>
\* the user of the spreadsheet adds the winner-record sheet
insertRecordSheet ==
    /\ recordSheet = <<>>
    /\ recordSheet' = << <<>> >>
    /\ UNCHANGED <<physVars, viewport, appVars, syncVars, nameSheet>>

SheetNext ==
    \/ \E row \in SheetInputs.rows : editNameSheet(row)
    \/ insertRecordSheet
    \/ \E name \in SheetInputs.names, round \in SheetInputs.rounds,
          sheetName \in SheetInputs.sheetNames :
           recordWinner(name, round, sheetName)
SpecSheet == Init /\ [][SheetNext]_vars

\* ------------------------------------------------------------------------
\* The controller (app.js).  A handler runs to completion: the engine calls
\* it has still to make wait in appCalls and are made one per step, and
\* nothing else happens until the list is empty.  A callback the engine
\* invokes runs inside the call that invoked it, so what it has to do goes
\* to the front of the list.
\* ------------------------------------------------------------------------
\* frames one activation of the turbulence may see
MaxSpinFrames == 4

AppInputs ==
    [canvases |-> {[w |-> 430, h |-> 430]},
     viewports |-> {[w |-> 1344, h |-> 768], [w |-> 390, h |-> 844]},
     radii |-> {24},
     swirls |-> {50, 75},
     names |-> <<"a", "b">>,
     counts |-> {0, 1, 2, 3},
     jitters |-> {30},
     deltas |-> {16},
     rescues |-> {<<0, 0>>},
     startVels |-> {<<0, -20>>},
     draws |-> {InMouth, PastTop}]

\* a call that waits: op with its arguments (a number, a size, a string)
Call(op, n, w, h, str) == [op |-> op, n |-> n, w |-> w, h |-> h, str |-> str]
Do(op) == Call(op, 0, 0, 0, "")
Idle == appCalls = <<>>
\* the handlers are bound in start(), before the first preview
Bound == physicsInited /\ Idle
Pending(op) == appCalls # <<>> /\ Head(appCalls).op = op
AppKeep(changed) ==
    /\ "state" \notin changed => UNCHANGED state
    /\ "winners" \notin changed => UNCHANGED winners
    /\ "animFrameId" \notin changed => UNCHANGED animFrameId
    /\ "physicsInited" \notin changed => UNCHANGED physicsInited
    /\ "appCalls" \notin changed => UNCHANGED appCalls
    /\ "appTimers" \notin changed => UNCHANGED appTimers
    /\ "batch" \notin changed => UNCHANGED batch
    /\ "viewport" \notin changed => UNCHANGED viewport
    /\ UNCHANGED syncVars
    /\ UNCHANGED sheetVars
\* the head call was made; nothing else of the controller changed but what
\* is named
Made(changed) == appCalls' = Tail(appCalls) /\ AppKeep(changed \cup {"appCalls"})

\* applyUserSettings(), then Physics.layout(width, height)
SettingsAndLayout(r, v, c) ==
    <<Call("setBallRadius", r, 0, 0, ""), Call("setSwirlMultiplier", v, 0, 0, ""),
      Call("layout", 0, c.w, c.h, "")>>
\* drawPreview() -> initPhysicsAndRenderer()
drawPreview(r, v, c) ==
    (IF physicsInited THEN <<>> ELSE <<Do("init")>>) \o SettingsAndLayout(r, v, c)
\* finishDrawing()
finishDrawing == <<Do("closeExitGate"), Do("finish")>>

\* start(): handleSwirlChange(), then drawPreview()
start(r, v, c) ==
    /\ ~physicsInited /\ Idle
    /\ appCalls' = <<Call("setSwirlMultiplier", v, 0, 0, "")>> \o drawPreview(r, v, c)
    /\ UNCHANGED physVars
    /\ AppKeep({"appCalls"})

\* handleLoad() that does not look at the state
handleLoadAnyState(r, v, c) ==
    /\ Bound
    /\ state' = "LOADING"
    /\ appCalls' = SettingsAndLayout(r, v, c)
                     \o <<Do("startLoop"), Call("createBalls", r, 0, 0, "")>>
    /\ UNCHANGED physVars
    /\ AppKeep({"state", "appCalls"})

handleLoad(r, v, c) ==
    /\ Bound
    /\ IF state # "IDLE" THEN UNCHANGED vars
       ELSE /\ createCalls < MaxCreates
            /\ state' = "LOADING"
            /\ appCalls' = SettingsAndLayout(r, v, c)
                             \o <<Do("startLoop"), Call("createBalls", r, 0, 0, "")>>
            /\ UNCHANGED physVars
            /\ AppKeep({"state", "appCalls"})

handleSpin(startVels) ==
    /\ Bound
    /\ IF state = "READY"
       THEN startTurbulence(startVels) /\ state' = "SPINNING" /\ AppKeep({"state"})
       ELSE IF state = "SPINNING"
       THEN stopTurbulence /\ state' = "READY" /\ AppKeep({"state"})
       ELSE UNCHANGED vars

\* handleDraw() that does not look at the state
handleDrawAnyState(count) ==
    /\ Bound
    /\ IF count < 1 \/ Min(count, Len(balls)) = 0
       THEN UNCHANGED vars
       ELSE /\ state' = "DRAWING"
            /\ batch' = [count |-> count, remainingBalls |-> Len(balls),
                         actualCount |-> Min(count, Len(balls)), drawn |-> 0]
            /\ appTimers' = appTimers \cup {"ejectCycle"}
            /\ UNCHANGED physVars
            /\ AppKeep({"state", "batch", "appTimers"})

\* handleDraw(); count is parseInt(inputCount.value), 0 for what !count
\* rejects
handleDraw(count) ==
    /\ Bound
    /\ IF state # "SPINNING" \/ count < 1 \/ Min(count, Len(balls)) = 0
       THEN UNCHANGED vars
       ELSE /\ state' = "DRAWING"
            /\ batch' = [count |-> count, remainingBalls |-> Len(balls),
                         actualCount |-> Min(count, Len(balls)), drawn |-> 0]
            /\ appTimers' = appTimers \cup {"ejectCycle"}
            /\ UNCHANGED physVars
            /\ AppKeep({"state", "batch", "appTimers"})

\* handleReset() that leaves the turbulence to layout
handleResetKeepSpinning(r, v, c) ==
    /\ Bound
    /\ IF state \in {"IDLE", "LOADING", "DRAWING"} THEN UNCHANGED vars
       ELSE /\ appCalls' = <<Do("cleanup")>> \o drawPreview(r, v, c)
                             \o <<Call("setState", 0, 0, 0, "IDLE")>>
            /\ UNCHANGED physVars
            /\ AppKeep({"appCalls"})

\* handleReset() that does not look at the state
handleResetAnyState(r, v, c) ==
    /\ Bound
    /\ appCalls' = (IF state = "SPINNING" THEN <<Do("stopTurbulence")>> ELSE <<>>)
                     \o <<Do("cleanup")>> \o drawPreview(r, v, c)
                     \o <<Call("setState", 0, 0, 0, "IDLE")>>
    /\ UNCHANGED physVars
    /\ AppKeep({"appCalls"})

handleReset(r, v, c) ==
    /\ Bound
    /\ IF state \in {"IDLE", "LOADING", "DRAWING"} THEN UNCHANGED vars
       ELSE /\ appCalls' = (IF state = "SPINNING" THEN <<Do("stopTurbulence")>> ELSE <<>>)
                             \o <<Do("cleanup")>> \o drawPreview(r, v, c)
                             \o <<Call("setState", 0, 0, 0, "IDLE")>>
            /\ UNCHANGED physVars
            /\ AppKeep({"appCalls"})

handleSwirlChange(v) ==
    /\ Bound
    /\ setSwirlMultiplier(v)
    /\ AppKeep({})

\* the window is resized: handleResize()
handleResize(vp, r, v, c) ==
    /\ Bound
    /\ viewport' = vp
    /\ appCalls' = IF state = "IDLE" THEN drawPreview(r, v, c) ELSE <<>>
    /\ UNCHANGED physVars
    /\ AppKeep({"viewport", "appCalls"})

\* the calls that wait, made one by one
callInit == Pending("init") /\ init /\ physicsInited' = TRUE /\ Made({"physicsInited"})
callSetBallRadius == Pending("setBallRadius") /\ setBallRadius(Head(appCalls).n) /\ Made({})
callSetSwirlMultiplier ==
    Pending("setSwirlMultiplier") /\ setSwirlMultiplier(Head(appCalls).n) /\ Made({})
callLayout ==
    Pending("layout") /\ layout(Head(appCalls).w, Head(appCalls).h) /\ Made({})
\* startLoop()
callStartLoop ==
    /\ Pending("startLoop")
    /\ animFrameId' = TRUE
    /\ UNCHANGED physVars
    /\ Made({"animFrameId"})
callCreateBalls ==
    Pending("createBalls") /\ createBalls(AppInputs.names, Head(appCalls).n) /\ Made({})
callStopTurbulence == Pending("stopTurbulence") /\ stopTurbulence /\ Made({})
\* stopLoop(); Physics.cleanup(); winners = []
callCleanup ==
    /\ Pending("cleanup")
    /\ cleanup
    /\ animFrameId' = FALSE
    /\ winners' = <<>>
    /\ Made({"animFrameId", "winners"})
callSetState ==
    /\ Pending("setState")
    /\ state' = Head(appCalls).str
    /\ UNCHANGED physVars
    /\ Made({"state"})
callOpenExitGate == Pending("openExitGate") /\ openExitGate /\ Made({})
callCloseExitGate == Pending("closeExitGate") /\ closeExitGate /\ Made({})
\* a callback that leaves the gate as it is
EjectCallbackNoClose(name) == <<Call("ejected", 0, 0, 0, name)>>
\* what the callback of ejectOneBall does first, given the name it got
EjectCallback(name) == <<Do("closeExitGate"), Call("ejected", 0, 0, 0, name)>>
\* Physics.ejectOneBall(callback); with no ball to take, the callback runs
\* inside the call
callEjectOneBall ==
    /\ Pending("ejectOneBall")
    /\ ejectOneBall
    /\ appCalls' = IF Len(cbLog') > Len(cbLog)
                   THEN EjectCallback(NULL) \o Tail(appCalls)
                   ELSE Tail(appCalls)
    /\ AppKeep({"appCalls"})
\* a batch that ends with its first ball
BatchDoneAfterOne(drawn, actualCount) == drawn >= 1
\* drawn >= actualCount
BatchDone(drawn, actualCount) == drawn >= actualCount
\* the rest of the callback, after closeExitGate()
callEjected ==
    /\ Pending("ejected")
    /\ UNCHANGED physVars
    /\ LET name == Head(appCalls).str IN
       IF name = NULL
       THEN /\ appCalls' = finishDrawing \o Tail(appCalls)
            /\ AppKeep({"appCalls"})
       ELSE /\ batch' = [batch EXCEPT !.drawn = @ + 1]
            /\ winners' = Append(winners, name)
            /\ IF BatchDone(batch.drawn + 1, batch.actualCount)
               THEN /\ appCalls' = finishDrawing \o Tail(appCalls)
                    /\ AppKeep({"appCalls", "batch", "winners"})
               ELSE /\ appCalls' = Tail(appCalls)
                    /\ appTimers' = appTimers \cup {"ejectCycle"}
                    /\ AppKeep({"appCalls", "batch", "winners", "appTimers"})
\* the end of finishDrawing(), after closeExitGate()
callFinish ==
    /\ Pending("finish")
    /\ stopTurbulence
    /\ state' = IF Len(balls) = 0 THEN "COMPLETE" ELSE "READY"
    /\ Made({"state"})

\* the settle timeout of handleLoad fires
settled(rescues) ==
    /\ Idle
    /\ "settle" \in appTimers
    /\ sealContainer(rescues)
    /\ state' = "READY"
    /\ appTimers' = appTimers \ {"settle"}
    /\ AppKeep({"state", "appTimers"})
\* a timeout of handleDraw fires: ejectCycle()
ejectCycle ==
    /\ Idle
    /\ "ejectCycle" \in appTimers
    /\ ejectCalls < MaxEjects
    /\ appTimers' = appTimers \ {"ejectCycle"}
    /\ appCalls' = <<Do("openExitGate"), Do("ejectOneBall")>>
    /\ UNCHANGED physVars
    /\ AppKeep({"appTimers", "appCalls"})
\* loop(now): a frame of the animation loop
loop(delta, draws) ==
    /\ Idle
    /\ animFrameId
    /\ turbulenceActive => turbulenceTime + delta <= MaxSpinFrames * delta
    /\ \E draw \in FrameDraws(draws) : UpdateStep(delta, draw)
    /\ AppKeep({})
\* the spawn task fires; its last firing runs the callback of handleLoad,
\* which sets the settle timeout
appSpawnTick(h, jitters) ==
    /\ Idle
    /\ SpawnTick(h, jitters)
    /\ appTimers' = IF Len(createdLog') > Len(createdLog)
                    THEN appTimers \cup {"settle"} ELSE appTimers
    /\ AppKeep({"appTimers"})
\* a guidance task fires; when its ball leaves, it runs the callback of
\* ejectCycle
appSteerTick(h) ==
    /\ Idle
    /\ SteerTick(h)
    /\ appCalls' = IF Len(cbLog') > Len(cbLog)
                   THEN EjectCallback(cbLog'[Len(cbLog')].arg) ELSE appCalls
    /\ AppKeep({"appCalls"})

AppNext ==
    \/ \E r \in AppInputs.radii, v \in AppInputs.swirls, c \in AppInputs.canvases :
        \/ start(r, v, c)
        \/ handleLoad(r, v, c)
        \/ handleReset(r, v, c)
        \/ \E vp \in AppInputs.viewports : handleResize(vp, r, v, c)
    \/ handleSpin(AppInputs.startVels)
    \/ \E count \in AppInputs.counts : handleDraw(count)
    \/ \E v \in AppInputs.swirls : handleSwirlChange(v)
    \/ callInit
    \/ callSetBallRadius
    \/ callSetSwirlMultiplier
    \/ callLayout
    \/ callStartLoop
    \/ callCreateBalls
    \/ callStopTurbulence
    \/ callCleanup
    \/ callSetState
    \/ callOpenExitGate
    \/ callCloseExitGate
    \/ callEjectOneBall
    \/ callEjected
    \/ callFinish
    \/ settled(AppInputs.rescues)
    \/ ejectCycle
    \/ \E dt \in AppInputs.deltas : loop(dt, AppInputs.draws)
    \/ \E h \in DOMAIN timers : appSpawnTick(h, AppInputs.jitters)
    \/ \E h \in DOMAIN timers : appSteerTick(h)
SpecApp == Init /\ [][AppNext]_vars

\* ------------------------------------------------------------------------
\* Properties of ejection
\* ------------------------------------------------------------------------
\* the last invocation of an ejection callback
LastCallback == cbLog[Len(cbLog)]
\* a completion callback (a non-null argument) was invoked in this step
Completed == Len(cbLog') > Len(cbLog) /\ cbLog'[Len(cbLog')].arg # NULL
\* balls of the list that are neither exiting nor exited, by list position
Eligible == {i \in 1 .. Len(balls) :
               ~body[balls[i]].isExiting /\ ~body[balls[i]].hasExited}
\* live guidance tasks
SteerTasks == {h \in DOMAIN timers : timers[h].kind = "steer"}
\* squared distance of list position i to the exit point (channel x, container top)
ToExit2(i) ==
    (body[balls[i]].x - exitChannel.x) * (body[balls[i]].x - exitChannel.x)
  + (body[balls[i]].y - (containerCenter.y - containerRadius))
      * (body[balls[i]].y - (containerCenter.y - containerRadius))

\* C1: an ejection that reaches the exited phase removes exactly one ball,
\* the one its guidance task steers, from the live list; its callback is
\* invoked exactly once, with that ball's name; the ball is never in the
\* list (or the world) again.
C1_ExitStep ==
    Completed =>
        LET e == cbLog'[Len(cbLog')]
            tasks == {h \in SteerTasks : timers[h].ball = e.ball}
        IN  /\ cbLog' = Append(cbLog, e)
            /\ e.arg = body[e.ball].name
            /\ \A h \in tasks : timers[h].cb = e.cb /\ h \notin DOMAIN timers'
            /\ Cardinality(tasks) = 1
            /\ \E i \in 1 .. Len(balls) :
                 /\ balls[i] = e.ball
                 /\ balls' = SubSeq(balls, 1, i - 1) \o SubSeq(balls, i + 1, Len(balls))
            /\ e.ball \notin ListedBalls'
            /\ world'.balls = world.balls \ {e.ball}
C1_NeverAgain ==
    \A i \in 1 .. Len(cbLog) :
        /\ cbLog[i].arg # NULL =>
              cbLog[i].ball \notin ListedBalls /\ cbLog[i].ball \notin world.balls
        /\ \A j \in 1 .. Len(cbLog) :
              (cbLog[i].cb = cbLog[j].cb \/
               (cbLog[i].arg # NULL /\ cbLog[i].ball = cbLog[j].ball)) => i = j
C1_RemovedOnce == [][C1_ExitStep]_vars /\ []C1_NeverAgain
\* one ball has left through the channel and called back; the other is still listed
C1_Witness ==
    /\ Len(cbLog) = 1
    /\ LastCallback.arg = "a"
    /\ Len(balls) = 1
    /\ body[balls[1]].name = "b"

\* C2: ejectOneBall with no eligible ball (empty list, or every listed ball
\* exiting or exited) invokes its callback once with null, starts no
\* guidance task and leaves the list, every ball, the gate, the sealed flag
\* and the turbulence state as they were.
C2_NullStep ==
    (ejectOneBall /\ Eligible = {}) =>
        /\ Len(cbLog') = Len(cbLog) + 1
        /\ SubSeq(cbLog', 1, Len(cbLog)) = cbLog
        /\ cbLog'[Len(cbLog')].cb = ejectCalls + 1
        /\ cbLog'[Len(cbLog')].arg = NULL
        /\ timers' = timers
        /\ balls' = balls
        /\ \A id \in DOMAIN body :
              /\ body'[id].isExiting = body[id].isExiting
              /\ body'[id].exitPhase = body[id].exitPhase
              /\ body'[id].category = body[id].category
              /\ body'[id].mask = body[id].mask
        /\ exitGateBody' = exitGateBody
        /\ world' = world
        /\ containerSealed' = containerSealed
        /\ turbulenceActive' = turbulenceActive
        /\ turbulenceTime' = turbulenceTime
C2_NoEligibleBall == [][C2_NullStep]_vars
\* a null callback answered a call made while the only ball was on its way
\* out, in a sealed drum with the gate open and turbulence on
C2_Witness ==
    /\ Len(cbLog) > 0
    /\ LastCallback.arg = NULL
    /\ Len(balls) = 1
    /\ body[balls[1]].isExiting
    /\ containerSealed
    /\ turbulenceActive
    /\ exitGateBody = NoBody

\* C3: ejectOneBall selects, among the eligible balls, one at minimum
\* squared distance to the exit point, and among those at the minimum the
\* first in list order.
C3_SelectStep ==
    (ejectOneBall /\ Eligible # {}) =>
        \E k \in Eligible :
            /\ body'[balls[k]].isExiting
            /\ \A i \in Eligible \ {k} : ~body'[balls[i]].isExiting
            /\ \A i \in Eligible :
                  /\ ToExit2(k) <= ToExit2(i)
                  /\ ToExit2(k) = ToExit2(i) => k <= i
C3_NearestFirst == [][C3_SelectStep]_vars
\* two balls at the same distance from the exit point, left and right of
\* it: the first of the list was taken, the second was not
C3_Witness ==
    /\ Len(balls) = 2
    /\ body[balls[1]].isExiting /\ body[balls[1]].exitTimer = 0
    /\ ~body[balls[2]].isExiting
    /\ body[balls[1]].x # body[balls[2]].x
    /\ ToExit2(1) = ToExit2(2)

\* C4: a later call never selects a ball that is already being ejected: the
\* in-flight ejections concern pairwise distinct balls, each with its own
\* guidance task and its own callback.
C4_EjectStep ==
    ejectOneBall =>
        \A id \in DOMAIN body :
            body[id].isExiting =>
                /\ body'[id] = body[id]
                /\ \A h \in SteerTasks : h \in DOMAIN timers' /\ timers'[h] = timers[h]
C4_Distinct ==
    /\ \A h1, h2 \in SteerTasks :
          (timers[h1].ball = timers[h2].ball \/ timers[h1].cb = timers[h2].cb) => h1 = h2
    /\ \A h \in SteerTasks :
          /\ body[timers[h].ball].isExiting
          /\ body[timers[h].ball].steerInterval = h
          /\ \A i \in 1 .. Len(cbLog) : cbLog[i].cb # timers[h].cb
C4_InFlightDistinct == [][C4_EjectStep]_vars /\ []C4_Distinct
\* two ejections in flight at once
C4_Witness ==
    /\ Cardinality(SteerTasks) = 2
    /\ \A i \in 1 .. Len(balls) : body[balls[i]].isExiting

\* C7: the selected ball is exiting, in phase rising, with ejection timer 0
\* and collision filter {EXITING, WALL} as soon as ejectOneBall returns; a
\* listed ball has category EXITING exactly when it is marked exiting, and
\* category BALL otherwise.
C7_MarkStep ==
    (ejectOneBall /\ Eligible # {}) =>
        \E k \in Eligible :
            /\ body'[balls[k]].isExiting
            /\ body'[balls[k]].exitPhase = "rising"
            /\ body'[balls[k]].exitTimer = 0
            /\ body'[balls[k]].category = CAT_EXITING
            /\ body'[balls[k]].mask = CAT_WALL
C7_Category ==
    \A id \in ListedBalls :
        body[id].category = IF body[id].isExiting THEN CAT_EXITING ELSE CAT_BALL
C7_FilterAtOnce == [][C7_MarkStep]_vars /\ []C7_Category
\* a ball just selected, no tick run yet, next to a free ball
C7_Witness ==
    \E id, other \in ListedBalls :
        /\ body[id].isExiting
        /\ body[id].exitPhase = "rising"
        /\ body[id].exitTimer = 0
        /\ body[id].category = CAT_EXITING
        /\ body[id].mask = CAT_WALL
        /\ ~body[other].isExiting
        /\ body[other].category = CAT_BALL

\* the phase of a ball record, "exited" once it has left
Phase(b) == IF b.hasExited THEN "exited" ELSE b.exitPhase
\* the container-side opening of the channel
OpeningY == containerCenter.y - containerRadius

\* C8: the phase of a ball only moves forward, one phase at a time, along
\* rising -> entering -> upChannel -> exited: to entering only within the
\* entry radius (0.8 channel widths) of the opening, to upChannel only with
\* y more than 5 above the opening, to exited only with y more than 30
\* above the channel top.
C8_PhaseStep ==
    \A id \in DOMAIN body \cap DOMAIN body' :
        LET b == body[id]
            p == Phase(b)
            q == Phase(body'[id])
        IN  \/ q = p
            \/ p = "none" /\ q = "rising"
            \/ /\ p = "rising" /\ q = "entering"
               /\ 100 * ((b.x - exitChannel.x) * (b.x - exitChannel.x)
                         + (b.y - OpeningY) * (b.y - OpeningY))
                    < (8 * exitChannel.width) * (8 * exitChannel.width)
            \/ p = "entering" /\ q = "upChannel" /\ b.y < OpeningY - 5
            \/ p = "upChannel" /\ q = "exited" /\ b.y < exitChannel.topY - 30
C8_PhaseOrder == [][C8_PhaseStep]_vars
\* a ball that went through the three phases in three ticks and left
C8_Witness ==
    \E id \in DOMAIN body :
        /\ body[id].hasExited
        /\ body[id].exitPhase = "upChannel"
        /\ body[id].exitTimer = 3 * STEER_PERIOD

\* C9: when cleanup() returns no spawn task and no guidance task is left to
\* run, and a cancelled handle is never handed out again: no tick of a task
\* that existed before the cleanup runs afterwards.
C9_CleanupStep ==
    /\ cleanup => DOMAIN timers' = {} /\ ballCreationInterval' = 0
    /\ nextHandle' >= nextHandle
C9_Handles == \A h \in DOMAIN timers : h < nextHandle
C9_CleanupCancels == [][C9_CleanupStep]_vars /\ []C9_Handles
\* an ejection cancelled in flight: the ball is still listed and exiting,
\* past its first tick, and its guidance task is gone
C9_Witness ==
    \E id \in ListedBalls :
        /\ body[id].isExiting
        /\ ~body[id].hasExited
        /\ body[id].exitTimer > 0
        /\ body[id].steerInterval \notin DOMAIN timers

\* ------------------------------------------------------------------------
\* Properties of the frame
\* ------------------------------------------------------------------------
\* the squared distance from the container centre is beyond 0.92 radius
BeyondHard(x, y) ==
    2500 * ((x - containerCenter.x) * (x - containerCenter.x)
            + (y - containerCenter.y) * (y - containerCenter.y))
        > 46 * 46 * containerRadius * containerRadius
\* the distance from the container centre is 0.8 radius, to the pixel
AtTeleport(x, y) ==
    LET d2 == (x - containerCenter.x) * (x - containerCenter.x)
              + (y - containerCenter.y) * (y - containerCenter.y)
        r10 == 8 * containerRadius            \* ten times 0.8 radius
    IN  /\ (r10 - 20) * (r10 - 20) <= 100 * d2
        /\ 100 * d2 <= (r10 + 20) * (r10 + 20)

\* C5: over a frame, a ball marked exiting keeps exactly what the solver
\* step gave it: no turbulence force is added, no turbulence speed limit is
\* applied, and the sealed-boundary correction neither moves it nor changes
\* its velocity.
C5_FrameStep ==
    \A dt \in FrameInputs.deltas :
        \A draw \in FrameDraws(FrameInputs.draws) :
            UpdateWith(dt, draw) =>
                \A id \in world.balls :
                    body[id].isExiting =>
                        /\ body'[id].fx = 0
                        /\ body'[id].fy = 0
                        /\ body'[id].vx = draw[id].vx
                        /\ body'[id].vy = draw[id].vy
                        /\ body'[id].x = containerCenter.x + draw[id].dx
                        /\ body'[id].y = containerCenter.y + draw[id].dy
C5_ExitingUntouched == [][C5_FrameStep]_vars
\* a sealed, turbulent frame threw both balls out fast: the exiting one is
\* where it was thrown, at full speed and with no force on it; the free one
\* was slowed down, pulled back and carries the turbulence force
C5_Witness ==
    /\ containerSealed
    /\ turbulenceActive
    /\ \E id, other \in ListedBalls :
          /\ body[id].isExiting
          /\ body[id].x = containerCenter.x + FastOut.dx
          /\ body[id].y = containerCenter.y + FastOut.dy
          /\ body[id].vx = FastOut.vx /\ body[id].vy = FastOut.vy
          /\ body[id].fx = 0 /\ body[id].fy = 0
          /\ ~body[other].isExiting
          /\ ~BeyondHard(body[other].x, body[other].y)
          /\ body[other].fx = FastOut.gx

\* C6: in a sealed drum, when update() returns every listed ball that is
\* not exiting or exited is within 0.92 radius of the centre; one that the
\* solver step left beyond that is at 0.8 radius.
C6_FrameStep ==
    \A dt \in FrameInputs.deltas :
        \A draw \in FrameDraws(FrameInputs.draws) :
            (UpdateWith(dt, draw) /\ containerSealed) =>
                \A id \in ListedBalls :
                    ~(body'[id].isExiting \/ body'[id].hasExited) =>
                        /\ ~BeyondHard(body'[id].x, body'[id].y)
                        /\ BeyondHard(containerCenter.x + draw[id].dx,
                                      containerCenter.y + draw[id].dy)
                             => AtTeleport(body'[id].x, body'[id].y)
C6_SealedBoundary == [][C6_FrameStep]_vars
\* a free ball of a sealed, calm drum that was pulled back to 0.8 radius
\* next to one the frame left just inside the boundary
C6_Witness ==
    /\ containerSealed
    /\ ~turbulenceActive
    /\ \E id, other \in ListedBalls :
          /\ ~body[id].isExiting
          /\ body[id].x # containerCenter.x + FastOut.dx
          /\ body[id].vx = 0 /\ body[id].vy = 0
          /\ AtTeleport(body[id].x, body[id].y)
          /\ ~body[other].isExiting
          /\ body[other].x = containerCenter.x + NearWall.dx
          /\ body[other].y = containerCenter.y + NearWall.dy

\* ------------------------------------------------------------------------
\* Properties of the collision filters
\* ------------------------------------------------------------------------
\* the static bodies in the world
Statics == BagToSet(world.statics)
\* two bodies collide when each one's mask includes the other's category
Collides(a, b) ==
    BitAnd(a.mask, b.category) # 0 /\ BitAnd(b.mask, a.category) # 0
\* the obstacles that admit ejected balls
AdmitExiting == {"wall", "entryGate", "lid", "exitWall", "exitGate"}

PassFree == {"exitGate", "exitWall"}
StopFree == {"channelStopper", "wall", "entryGate", "lid"}

\* C11: a free ball has filter {BALL, BALL|WALL}; it collides with no
\* exit-gate bar and no channel side wall, and with the channel stopper and
\* every boundary, entry-gate and lid segment, whether or not the gate bar is
\* in the world; a ball marked exiting does not collide with the stopper.
C11_FreeCollisions ==
    /\ \A f \in world.balls :
          ~body[f].isExiting =>
              /\ body[f].category = CAT_BALL
              /\ body[f].mask = BitOr(CAT_BALL, CAT_WALL)
              /\ \A s \in Statics :
                    /\ s.label \in PassFree => ~Collides(body[f], s)
                    /\ s.label \in StopFree => Collides(body[f], s)
                    /\ s.label \in PassFree \cup StopFree
    /\ \A e \in world.balls :
          body[e].isExiting =>
              \A s \in Statics :
                  s.label = "channelStopper" => ~Collides(body[e], s)
\* a sealed drum with the gate bar in place and a lid, a free ball next to
\* a ball that has just been selected
C11_Witness ==
    /\ containerSealed
    /\ exitGateBody \in Statics
    /\ lidBodies # {} /\ lidBodies \subseteq Statics
    /\ \E s \in Statics : s.label = "channelStopper"
    /\ \E f, e \in world.balls :
          /\ ~body[f].isExiting
          /\ body[e].isExiting /\ body[e].exitPhase = "rising"

\* ------------------------------------------------------------------------
\* Properties of the geometry
\* ------------------------------------------------------------------------
\* the number of bodies in the world that carry label l
CountLabel(w, l) ==
    BagCardinality([s \in {t \in BagToSet(w.statics) : t.label = l} |-> w.statics[s]])

\* C12: openExitGate leaves the gate open (isExitGateClosed false, no gate
\* body in the world) and closeExitGate leaves it closed (true, exactly one
\* gate body in the world), whatever the gate was before; a repeated call
\* changes nothing; layout leaves the gate closed; isExitGateClosed is true
\* exactly when the one gate body is in the world.
C12_GateStep ==
    /\ openExitGate =>
          /\ ~isExitGateClosed'
          /\ CountLabel(world', "exitGate") = 0
          /\ ~isExitGateClosed => UNCHANGED vars
    /\ closeExitGate =>
          /\ isExitGateClosed'
          /\ CountLabel(world', "exitGate") = 1
          /\ isExitGateClosed => UNCHANGED vars
    /\ (\E c \in GateInputs.canvases : layout(c.w, c.h)) =>
          /\ isExitGateClosed'
          /\ CountLabel(world', "exitGate") = 1
C12_GateExists ==
    /\ CountLabel(world, "exitGate") = IF isExitGateClosed THEN 1 ELSE 0
    /\ isExitGateClosed => CopiesIn(exitGateBody, world.statics) = 1
C12_GateIdempotent == [][C12_GateStep]_vars /\ []C12_GateExists
\* the gate of a sealed drum was opened while a ball was on its way out
C12_Witness ==
    /\ LaidOut
    /\ containerSealed
    /\ ~isExitGateClosed
    /\ CountLabel(world, "exitGate") = 0
    /\ \E e \in world.balls : body[e].isExiting /\ body[e].exitTimer > 0

\* ------------------------------------------------------------------------
\* Properties of loading
\* ------------------------------------------------------------------------
\* live spawn tasks
SpawnTasks == {h \in DOMAIN timers : timers[h].kind = "spawn"}
\* the names carried by the balls of list l, in list order
NamesOf(l, bd) == [i \in 1 .. Len(l) |-> bd[l[i]].name]

\* C13: a spawn tick with names left appends exactly one new ball, tagged
\* BALL / BALL|WALL, carrying the next name and the radius of the call; after
\* k ticks the list carries exactly the first k names; the tick that finds
\* all n names consumed invokes onAllCreated, with all n balls in the list,
\* and ends the task; no ball is added while no spawn task is live; every
\* createBalls call gets its callback, and gets it once.
C13_SpawnStep ==
    /\ \A h \in SpawnTasks :
          SpawnTick(h, LoadInputs.jitters) =>
              LET t == timers[h] IN
              IF t.idx < Len(t.names)
              THEN /\ Len(balls') = Len(balls) + 1
                   /\ SubSeq(balls', 1, Len(balls)) = balls
                   /\ LET id == balls'[Len(balls')] IN
                        /\ id \notin DOMAIN body
                        /\ world'.balls = world.balls \cup {id}
                        /\ body'[id].name = t.names[t.idx + 1]
                        /\ body'[id].ballRadius = t.ballRadius
                        /\ body'[id].category = CAT_BALL
                        /\ body'[id].mask = BitOr(CAT_BALL, CAT_WALL)
                   /\ createdLog' = createdLog
                   /\ h \in SpawnTasks'
              ELSE /\ createdLog' = Append(createdLog, t.cb)
                   /\ NamesOf(balls, body) = t.names
                   /\ balls' = balls
                   /\ world' = world
                   /\ SpawnTasks' = {}
    /\ SpawnTasks = {} =>
          /\ Len(balls') <= Len(balls)
          /\ world'.balls \subseteq world.balls
          /\ createdLog' = createdLog
C13_Prefix ==
    /\ Cardinality(SpawnTasks) <= 1
    /\ \A h \in SpawnTasks :
          /\ h = ballCreationInterval
          /\ timers[h].idx <= Len(timers[h].names)
          /\ NamesOf(balls, body) = SubSeq(timers[h].names, 1, timers[h].idx)
          /\ \A i \in 1 .. Len(createdLog) : createdLog[i] # timers[h].cb
    /\ \A i, j \in 1 .. Len(createdLog) : createdLog[i] = createdLog[j] => i = j
C13_Called ==
    \A k \in 1 .. MaxCreates :
        (createCalls >= k) ~> (\E i \in 1 .. Len(createdLog) : createdLog[i] = k)
C13_OnePerTick == [][C13_SpawnStep]_vars /\ []C13_Prefix /\ C13_Called
\* both names are in the list, in order, and the callback has been invoked
C13_Witness ==
    /\ createdLog = <<1>>
    /\ NamesOf(balls, body) = <<"b", "a">>
    /\ SpawnTasks = {}
    /\ \A i \in 1 .. Len(balls) : body[balls[i]].ballRadius = 20

\* ------------------------------------------------------------------------
\* Properties of sealing
\* ------------------------------------------------------------------------
\* squared distance of point (x, y) from the container centre
FromCenter2(x, y) ==
    (x - containerCenter.x) * (x - containerCenter.x)
  + (y - containerCenter.y) * (y - containerCenter.y)
\* farther from the centre than 0.9 radius
BeyondRescue(x, y) == 100 * FromCenter2(x, y) > 81 * containerRadius * containerRadius
\* nearer to the centre than 0.42 radius
InSafeZone(x, y) == 10000 * FromCenter2(x, y) < 1764 * containerRadius * containerRadius

\* C14: a sealContainer step leaves the drum sealed; a listed ball in an
\* ejection phase keeps its position and velocity; any other listed ball
\* that was beyond 0.9 radius is within 0.42 radius with velocity zero, and
\* one that was within 0.9 radius keeps its position and velocity: every
\* listed ball not in an ejection phase ends within 0.9 radius.
C14_SealStep ==
    sealContainer(SealInputs.rescues) =>
        /\ containerSealed'
        /\ ListedBalls' = ListedBalls
        /\ \A id \in ListedBalls :
              LET b == body[id]
                  a == body'[id]
                  same == a.x = b.x /\ a.y = b.y /\ a.vx = b.vx /\ a.vy = b.vy
              IN  /\ a.isExiting = b.isExiting /\ a.hasExited = b.hasExited
                  /\ (b.isExiting \/ b.hasExited) => same
                  /\ ~(b.isExiting \/ b.hasExited) =>
                        /\ ~BeyondRescue(a.x, a.y)
                        /\ IF BeyondRescue(b.x, b.y)
                           THEN InSafeZone(a.x, a.y) /\ a.vx = 0 /\ a.vy = 0
                           ELSE same
C14_SealRescues == [][C14_SealStep]_vars
\* a sealed drum: one free ball was brought back from outside to a point
\* off the centre and stopped, next to an exiting ball left outside at speed
C14_Witness ==
    /\ containerSealed
    /\ \E f, e \in ListedBalls :
          /\ ~body[f].isExiting
          /\ body[f].x = containerCenter.x + 50 /\ body[f].y = containerCenter.y - 66
          /\ body[f].vx = 0 /\ body[f].vy = 0
          /\ body[e].isExiting
          /\ BeyondRescue(body[e].x, body[e].y)
          /\ body[e].vx = FastOut.vx

\* ------------------------------------------------------------------------
\* Properties of the boundary
\* ------------------------------------------------------------------------
\* the labels of the segments that make up the boundary circle
BoundaryLabels == {"wall", "entryGate", "lid"}
\* the number of boundary segments in the world at segment position j
Cover(j) ==
    BagCardinality([s \in {t \in BagToSet(world.statics) :
                              t.seg = j /\ t.label \in BoundaryLabels}
                      |-> world.statics[s]])
\* angular distance of position j from the top of the circle
FromTop(j) == angularDistance((TWO_PI * j) \div WALL_SEGMENTS, (3 * PI) \div 2)
\* the positions inside the wide exit gap and inside the entry gap
ExitGapPositions == {j \in 0 .. 89 : NumLt(FromTop(j), exitGapHalfAngle)}
EntryGapPositions ==
    {j \in 0 .. 89 :
        NumLt(angularDistance((TWO_PI * j) \div WALL_SEGMENTS, entryAngle),
              entryGapHalfAngle)}
\* the narrow exit-only half-angle asin((width / 2 + 10) / radius)
NarrowHalfAngle == Asin(exitChannel.width + 20, 2 * containerRadius)

\* C15: in a laid-out drum whose exit gap and entry gap share no segment
\* position: once sealed, every position at least the narrow half-angle away
\* from the top carries exactly one boundary segment and every position
\* nearer the top carries none; before sealing, the positions inside the
\* wide exit gap carry none.
C15_Tiling ==
    (LaidOut /\ ExitGapPositions \cap EntryGapPositions = {}) =>
        IF containerSealed
        THEN \A j \in 0 .. 89 :
                /\ NumGe(FromTop(j), NarrowHalfAngle) => Cover(j) = 1
                /\ NumLt(FromTop(j), NarrowHalfAngle) => Cover(j) = 0
        ELSE \A j \in ExitGapPositions : Cover(j) = 0

\* C16: a sealContainer call made right after a sealContainer call (the drum
\* is sealed and the gravity scale is the one sealing sets) leaves the static
\* bodies of the world, the wall, entry-gate and lid lists, the sealed flag
\* and the gravity as the first call left them; no static body is in the
\* world twice.
C16_SealStep ==
    sealContainer(Inputs.rescues) =>
        /\ containerSealed'
        /\ engine'.gravityScale = 1
        /\ engine'.gravityY = engine.gravityY
        /\ (containerSealed /\ engine.gravityScale = 1) =>
              /\ world'.statics = world.statics
              /\ wallBodies' = wallBodies
              /\ entryGateBodies' = entryGateBodies
              /\ lidBodies' = lidBodies
              /\ engine' = engine
C16_NoDuplicate ==
    \A s \in BagToSet(world.statics) : CopiesIn(s, world.statics) = 1
C16_SealIdempotent == [][C16_SealStep]_vars /\ []C16_NoDuplicate
\* a sealed drum holding a ball, with its lid and entry gate in the world
\* and the gravity scale of sealing: the state a repeated call starts from
C16_Witness ==
    /\ containerSealed
    /\ ~turbulenceActive
    /\ engine.gravityScale = 1
    /\ engine.gravityY = 1
    /\ Len(balls) = 1
    /\ lidBodies # {} /\ entryGateBodies # {}
    /\ \A s \in lidBodies \cup entryGateBodies : CopiesIn(s, world.statics) = 1

\* the module state apart from the ball objects themselves
moduleVars == <<engine, world, geometryVars, balls, wallVars, containerSealed,
                configVars, turbVars, exitGateBody, nextBall, timerVars,
                countVars, hostVars>>
\* what a layout leaves: an empty list and world, an unsealed drum without
\* lid, the gate bar in place, and only boundary, channel, stopper,
\* entry-gate and exit-gate bodies in the world, each once
Fresh ==
    /\ balls = <<>>
    /\ world.balls = {}
    /\ ~containerSealed
    /\ isExitGateClosed
    /\ lidBodies = {}
    /\ \A s \in BagToSet(world.statics) :
          /\ CopiesIn(s, world.statics) = 1
          /\ s.label \in {"wall", "exitWall", "channelStopper", "entryGate", "exitGate"}
          /\ s.label = "wall" <=> s \in wallBodies
          /\ s.label = "entryGate" <=> s \in entryGateBodies
          /\ s.label = "exitGate" <=> s = exitGateBody
    /\ wallBodies \cup entryGateBodies \cup {exitGateBody} \subseteq BagToSet(world.statics)
    /\ CountLabel(world, "exitWall") = 2
    /\ CountLabel(world, "channelStopper") = 1
    /\ CountLabel(world, "exitGate") = 1
\* the drum is placed as layout(w, h) places it for the configured radius
PlacedFor(w, h) ==
    LET g == LayoutGeometry(w, h, configBallRadius)
    IN  /\ containerCenter = g.center
        /\ containerRadius = g.radius
        /\ exitChannel = g.exitChannel
        /\ exitGapHalfAngle = g.exitGapHalfAngle

\* C17: every layout(w, h) step, whatever the state it is called in, ends
\* with an empty ball list and world, an unsealed drum, the exit gate closed
\* and only freshly built bodies in the world; a layout(w, h) called in a
\* state that a layout(w, h) with the same configuration left changes
\* nothing.
C17_LayoutStep ==
    \A c \in BuildInputs.canvases :
        layout(c.w, c.h) =>
            /\ Fresh'
            /\ PlacedFor(c.w, c.h)'
            /\ (Fresh /\ PlacedFor(c.w, c.h)) => UNCHANGED moduleVars
C17_LayoutResets == [][C17_LayoutStep]_vars
\* a layout for the small canvas and the small ball that followed a load:
\* the ball that was created is gone
C17_Witness ==
    /\ Fresh
    /\ LaidOut
    /\ PlacedFor(120, 120)
    /\ configBallRadius = 10
    /\ Len(createdLog) > 0

\* ------------------------------------------------------------------------
\* Properties of turbulence
\* ------------------------------------------------------------------------
\* the step changes nothing but the ball objects and the elapsed time
FrameOnly ==
    UNCHANGED <<engine, world, geometryVars, balls, wallVars, containerSealed,
                configVars, turbulenceActive, exitGateBody, nextBall,
                timerVars, countVars, hostVars>>

\* C18: turbulence is inactive, with elapsed time 0, initially; every
\* startTurbulence step ends active with elapsed time 0; every
\* stopTurbulence step ends inactive and leaves the elapsed time; the flag
\* changes in no other step; the elapsed time changes otherwise only in an
\* update(dt) taken while turbulence is active, by dt, and every such update
\* does add dt.
C18_TurbStep ==
    /\ startTurbulence(TurbInputs.startVels) =>
          turbulenceActive' /\ turbulenceTime' = 0
    /\ stopTurbulence =>
          ~turbulenceActive' /\ turbulenceTime' = turbulenceTime
    /\ turbulenceActive' # turbulenceActive =>
          \/ startTurbulence(TurbInputs.startVels)
          \/ stopTurbulence
    /\ turbulenceTime' # turbulenceTime =>
          \/ startTurbulence(TurbInputs.startVels)
          \/ /\ turbulenceActive /\ turbulenceActive'
             /\ \E dt \in TurbInputs.deltas :
                   /\ turbulenceTime' = turbulenceTime + dt
                   /\ update(dt, TurbInputs.draws)
    /\ \A dt \in TurbInputs.deltas :
          (FrameOnly /\ update(dt, TurbInputs.draws)) =>
              turbulenceTime' = IF turbulenceActive THEN turbulenceTime + dt
                                ELSE turbulenceTime
C18_Initially == ~turbulenceActive /\ turbulenceTime = 0
C18_TurbLifecycle == C18_Initially /\ [][C18_TurbStep]_vars
\* a sealed drum set spinning at intensity 7.5: one frame of 8 ms has run
\* and has put the turbulence force on a ball
C18_Witness ==
    /\ turbulenceActive
    /\ turbulenceTime = 8
    /\ containerSealed
    /\ swirlMultiplier = 75
    /\ \E id \in ListedBalls : body[id].restitution = 9 /\ body[id].fx # 0

\* C19: a stopTurbulence that follows a startTurbulence (one that activates
\* turbulence) restores the gravity and, for every listed ball that is not
\* being ejected, the air friction and restitution that held before the
\* startTurbulence call.
C19_StartStop ==
    (~turbulenceActive /\ startTurbulence(TurbInputs.startVels)) =>
        /\ StopGravity(engine').gravityY = engine.gravityY
        /\ StopGravity(engine').gravityScale = engine.gravityScale
        /\ \A id \in ListedBalls :
              ~body[id].isExiting =>
                  /\ StopProfile(body')[id].frictionAir = body[id].frictionAir
                  /\ StopProfile(body')[id].restitution = body[id].restitution
C19_StopRestores == [][C19_StartStop]_vars

\* the ball table the turbulence pass of a frame leaves, before the
\* boundary correction
PassOf(draw) ==
    applyTurbulence(EngineUpdate(body, draw),
                    [id \in DOMAIN body |-> <<draw[id].gx, draw[id].gy>>])
Speed2(b) == b.vx * b.vx + b.vy * b.vy
OverCap(b) == Speed2(b) > TURBULENCE_SPEED_LIMIT * TURBULENCE_SPEED_LIMIT

\* C20: in every update taken while turbulence is active, the turbulence
\* pass leaves every listed ball that is not being ejected with a speed of
\* at most the cap, wherever the solver put the ball; a ball the solver
\* left over the cap leaves the pass at exactly the cap, moving in the same
\* direction.
C20_PassStep ==
    (turbulenceActive /\ FrameOnly) =>
        \A dt \in TurbInputs.deltas, draw \in FrameDraws(TurbInputs.draws) :
            UpdateWith(dt, draw) =>
                \A id \in ListedBalls :
                    ~body[id].isExiting =>
                        /\ ~OverCap(PassOf(draw)[id])
                        /\ OverCap(EngineUpdate(body, draw)[id]) =>
                              /\ Speed2(PassOf(draw)[id])
                                    = TURBULENCE_SPEED_LIMIT * TURBULENCE_SPEED_LIMIT
                              /\ PassOf(draw)[id].vx * draw[id].vy
                                    = PassOf(draw)[id].vy * draw[id].vx
                              /\ PassOf(draw)[id].vx * draw[id].vx
                                    + PassOf(draw)[id].vy * draw[id].vy > 0
C20_SpeedCap == [][C20_PassStep]_vars

\* ------------------------------------------------------------------------
\* Properties of a whole ejection
\* ------------------------------------------------------------------------
\* ball id left the simulation: it is off the list and out of the world,
\* and a completion callback was invoked for it
Exited(id) ==
    /\ id \notin ListedBalls
    /\ id \notin world.balls
    /\ \E k \in DOMAIN cbLog : cbLog[k].ball = id /\ cbLog[k].arg # NULL
\* ball id is on its way out and the gate is open
Ejecting(id) ==
    /\ id \in DOMAIN body
    /\ body[id].isExiting
    /\ ~body[id].hasExited
    /\ ~isExitGateClosed

NamedAt(name) ==
    {k \in 1 .. Len(balls) :
        /\ body[balls[k]].name = name
        /\ ~body[balls[k]].isExiting
        /\ ~body[balls[k]].hasExited}

\* C22: ejectSpecificBall(name, cb) takes the first ball in list order that
\* carries the name and is neither exiting nor exited: it marks that ball
\* as ejectOneBall marks its choice (exiting, phase rising, timer 0,
\* exiting category, wall mask, air friction 0.02), starts one guidance
\* task for it with cb, and touches nothing else; the task's last tick
\* calls cb with the ball's name.  With no such ball it calls cb(null) and
\* changes no state.
C22_NamedStep ==
    /\ \A name \in NamedInputs.asked :
          ejectSpecificBall(name) =>
            IF NamedAt(name) = {}
            THEN /\ cbLog' = Append(cbLog, [cb |-> ejectCalls + 1, arg |-> NULL, ball |-> 0])
                 /\ UNCHANGED <<engine, world, geometryVars, balls, wallVars,
                                containerSealed, configVars, turbVars, exitGateBody,
                                body, nextBall, timerVars, createCalls, createdLog>>
            ELSE \E k \in NamedAt(name) :
                 /\ \A j \in NamedAt(name) : k <= j
                 /\ body'[balls[k]].isExiting
                 /\ ~body'[balls[k]].hasExited
                 /\ body'[balls[k]].exitPhase = "rising"
                 /\ body'[balls[k]].exitTimer = 0
                 /\ body'[balls[k]].category = CAT_EXITING
                 /\ body'[balls[k]].mask = CAT_WALL
                 /\ body'[balls[k]].frictionAir = 20
                 /\ \A id \in DOMAIN body \ {balls[k]} : body'[id] = body[id]
                 /\ \E h \in DOMAIN timers' \ DOMAIN timers :
                       /\ DOMAIN timers' = DOMAIN timers \cup {h}
                       /\ timers'[h].kind = "steer"
                       /\ timers'[h].ball = balls[k]
                       /\ timers'[h].cb = ejectCalls + 1
                       /\ body'[balls[k]].steerInterval = h
                 /\ \A h \in DOMAIN timers : timers'[h] = timers[h]
                 /\ UNCHANGED <<world, balls, cbLog, exitGateBody, containerSealed>>
    /\ \A h \in DOMAIN timers :
          (SteerTick(h) /\ Len(cbLog') > Len(cbLog)) =>
              /\ cbLog'[Len(cbLog')].arg = body[timers[h].ball].name
              /\ cbLog'[Len(cbLog')].cb = timers[h].cb
              /\ timers[h].ball \notin ListedBalls'
C23_LayoutStep ==
    \A c \in GeomInputs.canvases :
        (layout(c.w, c.h) /\ c.w >= 30 /\ c.h >= 30) =>
            /\ containerRadius' >= 0
            /\ 2 * containerRadius' <= c.w - 30
            /\ 2 * containerRadius' <= c.h - 30
            /\ containerRadius' + 15 <= containerCenter'.x
            /\ containerCenter'.x <= c.w - containerRadius' - 15
            /\ containerRadius' + 15 <= containerCenter'.y
            /\ containerCenter'.y <= c.h - containerRadius' - 15
C23_Fits == [][C23_LayoutStep]_vars
\* a canvas of 120 x 120 in a full-HD window: the radius is cut from 291 to
\* 45 and the centre pulled in to (60, 60)
C23_Witness ==
    /\ LaidOut
    /\ viewport = [w |-> 1920, h |-> 1080]
    /\ containerRadius = 45
    /\ containerCenter = [x |-> 60, y |-> 60]

\* C24: after a layout (of a canvas of at least 30 x 30) the exit-gap
\* half-angle h is a number with
\* sin(h) = (channelWidth / 2 + 24) / containerRadius, where
\* channelWidth = max(30, 2 * ballRadius + 8), and the exit gap
\* [3pi/2 - h, 3pi/2 + h] lies clear of the entry gap [pi, pi + 0.8].
\* (sin is compared in units of 1e-4, within 3 units.)
C24_LayoutStep ==
    \A c \in GeomInputs.canvases :
        (layout(c.w, c.h) /\ c.w >= 30 /\ c.h >= 30) =>
            LET channelWidth == Max(30, 2 * configBallRadius + 8)
                num == channelWidth + 2 * EXIT_GAP_MARGIN
                den == 2 * containerRadius'
            IN  /\ exitChannel'.width = channelWidth
                /\ exitGapHalfAngle' # NaN
                /\ Abs(Sin(exitGapHalfAngle') * den - num * 10000) <= 3 * den
                /\ ExitCenter - exitGapHalfAngle'
                      > entryAngle' + entryGapHalfAngle'
C24_ExitGap == [][C24_LayoutStep]_vars

\* ------------------------------------------------------------------------
\* Properties of a frame
\* ------------------------------------------------------------------------
\* the velocity the turbulence pass leaves a free, off-centre ball the
\* solver gave velocity (vx, vy): capped while turbulence is active
AfterPass(vx, vy) ==
    IF turbulenceActive
    THEN limitSpeed([vx |-> vx, vy |-> vy], TURBULENCE_SPEED_LIMIT)
    ELSE [vx |-> vx, vy |-> vy]
\* the z component of (ax, ay) x (bx, by)
Cross(ax, ay, bx, by) == ax * by - ay * bx

\* C28: update(dt) runs the solver step, then the turbulence pass (only
\* while turbulence is active), then the boundary correction (only in a
\* sealed drum).  For every listed ball that is not being ejected: the
\* force on it when update returns is the turbulence force alone, or none
\* when turbulence is off (the solver step came first and cleared it); in
\* an unsealed drum, or inside the hard boundary, it is where the solver put
\* it, with the solver's velocity as the pass left it; beyond the boundary
\* of a sealed drum it has been moved, and what the correction kept of its
\* velocity is the part along the wall of the velocity the pass left.
C28_UpdateStep ==
    \A dt \in ClampInputs.deltas, draw \in FrameDraws(ClampInputs.draws) :
        UpdateWith(dt, draw) =>
            \A id \in ListedBalls :
                ~body[id].isExiting =>
                    LET px == containerCenter.x + draw[id].dx
                        py == containerCenter.y + draw[id].dy
                        lv == AfterPass(draw[id].vx, draw[id].vy)
                    IN  /\ body'[id].fx = IF turbulenceActive THEN draw[id].gx ELSE 0
                        /\ body'[id].fy = IF turbulenceActive THEN draw[id].gy ELSE 0
                        /\ (~containerSealed \/ ~BeyondHard(px, py)) =>
                              /\ body'[id].x = px /\ body'[id].y = py
                              /\ body'[id].vx = lv.vx /\ body'[id].vy = lv.vy
                        /\ (containerSealed /\ BeyondHard(px, py)) =>
                              /\ body'[id].x # px \/ body'[id].y # py
                              /\ Cross(body'[id].vx, body'[id].vy, draw[id].dx, draw[id].dy)
                                   = Cross(lv.vx, lv.vy, draw[id].dx, draw[id].dy)
C28_Order == [][C28_UpdateStep]_vars
\* a sealed, turbulent frame left a ball beyond the boundary at (9, 12)
\* px/step: capped to (7.2, 9.6), then pulled back and left with (0, 9.6),
\* carrying the turbulence force
C28_Witness ==
    /\ containerSealed
    /\ turbulenceActive
    /\ \E id \in ListedBalls :
          /\ body[id].x = containerCenter.x + 160 /\ body[id].y = containerCenter.y
          /\ body[id].vx = 0 /\ body[id].vy = 96
          /\ body[id].fx = Skew.gx /\ body[id].fy = Skew.gy

\* C29: when the correction of a sealed drum moves a ball, the ball ends at
\* 0.8 x containerRadius from the centre on the ray it was on; if its
\* velocity pointed outwards, the outward part is gone and the part along
\* the wall is what it was; if it pointed inwards or along the wall, the
\* velocity is what it was.
C29_ClampStep ==
    \A dt \in ClampInputs.deltas, draw \in FrameDraws(ClampInputs.draws) :
        (UpdateWith(dt, draw) /\ containerSealed) =>
            \A id \in ListedBalls :
                (/\ ~(body[id].isExiting \/ body[id].hasExited)
                 /\ BeyondHard(containerCenter.x + draw[id].dx,
                               containerCenter.y + draw[id].dy)) =>
                    LET dx == draw[id].dx
                        dy == draw[id].dy
                        nx == body'[id].x - containerCenter.x
                        ny == body'[id].y - containerCenter.y
                        vin == AfterPass(draw[id].vx, draw[id].vy)
                        outward == vin.vx * dx + vin.vy * dy
                    IN  /\ AtTeleport(body'[id].x, body'[id].y)
                        /\ Cross(nx, ny, dx, dy) = 0
                        /\ nx * dx + ny * dy > 0
                        /\ outward > 0 =>
                              /\ body'[id].vx * dx + body'[id].vy * dy = 0
                              /\ Cross(body'[id].vx, body'[id].vy, dx, dy)
                                   = Cross(vin.vx, vin.vy, dx, dy)
                        /\ outward <= 0 =>
                              /\ body'[id].vx = vin.vx
                              /\ body'[id].vy = vin.vy
C29_Clamp == [][C29_ClampStep]_vars
\* a sealed, calm frame pulled two balls back to (0.8 R, 0): the one that
\* moved inwards kept (-6, 8) px/step, the one that moved outwards at
\* (9, 12) kept (0, 12)
C29_Witness ==
    /\ containerSealed
    /\ ~turbulenceActive
    /\ Len(balls) = 2
    /\ \A k \in 1 .. 2 :
          /\ body[balls[k]].x = containerCenter.x + 160
          /\ body[balls[k]].y = containerCenter.y
    /\ body[balls[1]].vx = -60 /\ body[balls[1]].vy = 80
    /\ body[balls[2]].vx = 0 /\ body[balls[2]].vy = 120

\* ------------------------------------------------------------------------
\* Properties of the synchronisation service
\* ------------------------------------------------------------------------
Log == ParseOr(cache.commands, <<>>)

\* C26: pushCommand calls are serialized by the script lock.  Every call
\* that returned a version returned one more than the version that was
\* stored when it got the lock (0 if none was); the versions of the stored
\* commands increase strictly along the log, so no two are equal; and no
\* call that has ended still holds the lock.
C26_Serialized ==
    /\ \A r \in DOMAIN replies :
          (proc[r].op = "push" /\ ~replies[r].threw) =>
              replies[r].version = VersionOf(proc[r].held) + 1
    /\ \A i, j \in DOMAIN Log : i < j => Log[i].version < Log[j].version
    /\ lock # 0 => Running(lock)

\* C27: what getSyncState(s) returned is what the claim says of the cache
\* as it stood at some instant of the call: the stored version with no
\* commands and no snapshot if that version is <= s, otherwise the stored
\* version, the stored commands of version > s in log order, and the
\* stored snapshot if s = 0 and none otherwise.
C27_Answer ==
    \A r \in DOMAIN replies :
        proc[r].op = "get" => replies[r] \in proc[r].views

\* ------------------------------------------------------------------------
\* Properties of the controller
\* ------------------------------------------------------------------------
AnyLoad ==
    \E r \in AppInputs.radii, v \in AppInputs.swirls, c \in AppInputs.canvases :
        handleLoad(r, v, c)
AnyReset ==
    \E r \in AppInputs.radii, v \in AppInputs.swirls, c \in AppInputs.canvases :
        handleReset(r, v, c)
AnyDraw == \E count \in AppInputs.counts : handleDraw(count)
AnySpin == handleSpin(AppInputs.startVels)
\* every name has its ball and the spawn task is gone
AllSpawned == Len(balls) = Len(AppInputs.names) /\ ballCreationInterval = 0

\* C25: the controller state changes only along IDLE -> LOADING (load),
\* LOADING -> READY (all balls spawned, settle timeout fired, container
\* sealed), READY -> SPINNING and SPINNING -> READY (spin), SPINNING ->
\* DRAWING (draw), DRAWING -> READY or COMPLETE (end of the batch) and READY,
\* SPINNING or COMPLETE -> IDLE (reset); a load, spin, draw or reset
\* request in any other state changes neither the controller state nor the
\* state of the engine.
C25_Step ==
    /\ state' # state =>
        \/ state = "IDLE" /\ state' = "LOADING" /\ AnyLoad
        \/ /\ state = "LOADING" /\ state' = "READY"
           /\ settled(AppInputs.rescues)
           /\ AllSpawned
           /\ containerSealed'
        \/ state = "READY" /\ state' = "SPINNING" /\ AnySpin
        \/ state = "SPINNING" /\ state' = "READY" /\ AnySpin
        \/ state = "SPINNING" /\ state' = "DRAWING" /\ AnyDraw
        \/ state = "DRAWING" /\ state' \in {"READY", "COMPLETE"} /\ callFinish
        \/ /\ state \in {"READY", "SPINNING", "COMPLETE"} /\ state' = "IDLE"
           /\ callSetState
    /\ (AnyLoad /\ state # "IDLE") => UNCHANGED <<state, physVars>>
    /\ (AnySpin /\ state \notin {"READY", "SPINNING"}) => UNCHANGED <<state, physVars>>
    /\ (AnyDraw /\ state # "SPINNING") => UNCHANGED <<state, physVars>>
    /\ (AnyReset /\ state \in {"IDLE", "LOADING", "DRAWING"}) =>
           UNCHANGED <<state, physVars>>
ExitingBalls == {id \in ListedBalls : body[id].isExiting}
\* the last k callbacks of ejections
LastEjected(k) == SubSeq(cbLog, Len(cbLog) - k + 1, Len(cbLog))

\* C30: a batch asked for in SPINNING with count c >= 1 and n >= 1 balls
\* ends with exactly min(c, n) balls ejected: that many balls are gone from
\* the list, each ejection began when no other ball was on its way out, and
\* the winners gained the names of these balls, one entry per ball, in the
\* order they left.  The step that ends the batch stops the turbulence and
\* sets COMPLETE if no ball remains and READY otherwise.
C30_Step ==
    /\ (state = "SPINNING" /\ state' = "DRAWING") =>
          /\ batch'.count >= 1 /\ batch'.remainingBalls >= 1
          /\ batch'.remainingBalls = Len(balls)
          /\ batch'.drawn = 0
    /\ (state = "DRAWING" /\ ejectCalls' > ejectCalls) => ExitingBalls = {}
    /\ (state = "DRAWING" /\ state' # "DRAWING") =>
          LET k == Min(batch.count, batch.remainingBalls)
              gone == LastEjected(k)
          IN  /\ batch.drawn = k
              /\ Len(balls) = batch.remainingBalls - k
              /\ Len(cbLog) >= k /\ Len(winners) >= k
              /\ \A i \in 1 .. k :
                    /\ gone[i].arg # NULL
                    /\ gone[i].ball \notin ListedBalls
                    /\ winners[Len(winners) - k + i] = gone[i].arg
              /\ \A i, j \in 1 .. k : i # j => gone[i].ball # gone[j].ball
              /\ ~turbulenceActive'
              /\ state' = IF Len(balls') = 0 THEN "COMPLETE" ELSE "READY"
EjectionUnderWay ==
    \/ Pending("ejectOneBall")
    \/ \E h \in DOMAIN timers : timers[h].kind = "steer"
    \/ Pending("closeExitGate")

\* C31: under the controller, once the drum is laid out, the exit gate is
\* open only from the opening that precedes an ejectOneBall call to the
\* close in that ejection's callback: the call made right after every
\* opening is ejectOneBall, an open gate means an ejection is under way,
\* and in every state other than DRAWING the gate is closed.
C31_OpenStep == callOpenExitGate => Pending("ejectOneBall")'
C31_Gate ==
    /\ [][C31_OpenStep]_vars
    /\ [](LaidOut =>
            /\ ~isExitGateClosed => (state = "DRAWING" /\ EjectionUnderWay)
            /\ state # "DRAWING" => isExitGateClosed)
\* between two ejections of a batch: one ball drawn, the next ejection
\* waits for its timer, the gate is closed
C31_Witness ==
    /\ state = "DRAWING"
    /\ batch.drawn = 1
    /\ "ejectCycle" \in appTimers
    /\ Idle
    /\ isExitGateClosed

\* no task of the engine and no timeout of the controller is pending
NothingPending == DOMAIN timers = {} /\ appTimers = {}
\* handleReset is running: its calls end with setState('IDLE')
ResetRunning == appCalls # <<>> /\ appCalls[Len(appCalls)].op = "setState"

\* C32: in every state in which the controller accepts a reset (READY,
\* SPINNING or COMPLETE, no handler running) no spawn task, no guidance
\* task, no settle timeout and no ejection timeout is pending; none appears
\* while the reset runs, and none is pending in IDLE, so that every task or
\* timeout that runs after a reset was created after it.
C32_Quiet ==
    (physicsInited /\ (ResetRunning \/ (Idle /\ state \in {"READY", "SPINNING", "COMPLETE", "IDLE"})))
        => NothingPending
\* a reset accepted in READY after a batch of one is about to lay the drum
\* out again: one ball is still listed, nothing is pending
C32_Witness ==
    /\ ResetRunning
    /\ Pending("layout")
    /\ Len(cbLog) = 1
    /\ Len(balls) = 1
    /\ NothingPending

\* the balls in an ejection phase: marked, and not yet out
InEjection == {id \in DOMAIN body : body[id].isExiting /\ ~body[id].hasExited}
SteerHandles == {h \in DOMAIN timers : timers[h].kind = "steer"}

\* C33: under the controller at most one ball is in an ejection phase at
\* any time, and at most one guidance task is pending.  ejectOneBall is
\* called only when no ball is in an ejection phase and no guidance task is
\* pending; an ejection timeout is set only by an accepted draw or by the
\* callback of the ejection before, and never while one is already set or
\* an ejection is under way; a draw request in DRAWING changes nothing.
C33_Step ==
    /\ ejectCalls' > ejectCalls => (InEjection = {} /\ SteerHandles = {})
    /\ ("ejectCycle" \in appTimers' /\ "ejectCycle" \notin appTimers) =>
          /\ (state = "SPINNING" /\ state' = "DRAWING") \/ callEjected
          /\ InEjection' = {} /\ SteerHandles' = {}
    /\ (\E count \in AppInputs.counts : handleDraw(count) /\ state = "DRAWING") =>
          UNCHANGED vars
C33_OneByOne ==
    /\ [][C33_Step]_vars
    /\ [](Cardinality(InEjection) <= 1 /\ Cardinality(SteerHandles) <= 1)
\* the first ball of a batch of two is in the channel, the second still in
\* the drum
C33_Witness ==
    /\ state = "DRAWING"
    /\ batch.actualCount = 2 /\ batch.drawn = 0
    /\ Len(balls) = 2
    /\ \E id \in InEjection : body[id].exitPhase = "upChannel"

\* C34: from READY after loading until the next reset, whenever no handler
\* is running, the winners recorded and the balls listed are together as
\* many as the loaded names, and the winners are the names handed to the
\* last callbacks, each for a different ball that is no longer listed.
C34_Accounted ==
    (Idle /\ state \in {"READY", "SPINNING", "DRAWING", "COMPLETE"}) =>
        LET k == Len(winners)
            gone == LastEjected(k)
        IN  /\ k + Len(balls) = Len(AppInputs.names)
            /\ Len(cbLog) >= k
            /\ \A i \in 1 .. k :
                  /\ winners[i] = gone[i].arg
                  /\ gone[i].ball \notin ListedBalls
            /\ \A i, j \in 1 .. k : i # j => gone[i].ball # gone[j].ball
            /\ \A i, j \in 1 .. Len(balls) : i # j => balls[i] # balls[j]
\* one of two balls has won and the drum is at rest with the other
C34_Witness ==
    /\ state = "READY"
    /\ Idle
    /\ Len(winners) = 1
    /\ Len(balls) = 1
    /\ body[balls[1]].name # winners[1]

\* C35: whenever no handler is running, the turbulence is active in the
\* engine exactly if the controller state is SPINNING or DRAWING; so it is
\* inactive in IDLE after every reset, also after one accepted in SPINNING.
C35_Turbulence ==
    Idle => (turbulenceActive <=> state \in {"SPINNING", "DRAWING"})
\* back in IDLE after a reset that followed a spin: the drum has been laid
\* out again, the clock of the turbulence still shows the frames it saw
C35_Witness ==
    /\ state = "IDLE"
    /\ Idle
    /\ createdLog # <<>>
    /\ balls = <<>>
    /\ turbulenceTime > 0
    /\ ~turbulenceActive

\* ------------------------------------------------------------------------
\* Properties of the synchronisation service under interleaving
\* ------------------------------------------------------------------------
\* C36: every command in what SyncService_getSyncState returned has a
\* version <= the version of that same answer, also when the call ran
\* interleaved with SyncService_pushCommand.
C36_NoFuture ==
    \A r \in DOMAIN replies :
        proc[r].op = "get" =>
            \A i \in DOMAIN replies[r].commands :
                replies[r].commands[i].version <= replies[r].version

\* the names carried by the EJECT commands of a log since its last INIT or
\* RESET, in log order
Resets(log) == {i \in DOMAIN log : log[i].action \in {"INIT", "RESET"}}
SinceReset(log) ==
    LET from == IF Resets(log) = {} THEN 0
                ELSE CHOOSE i \in Resets(log) : \A j \in Resets(log) : j <= i
    IN  SubSeq(log, from + 1, Len(log))
CarriesName(cmd) ==
    cmd.action = "EJECT" /\ cmd.payload # <<>> /\ cmd.payload[1].name # ""
EjectedNames(log) ==
    LET ejects == SelectSeq(SinceReset(log), CarriesName)
    IN  [i \in DOMAIN ejects |-> ejects[i].payload[1].name]
StoredSnapshot == ParseOr(cache.snapshot, DefaultSnapshot)
\* the call r has just left _updateSnapshot without a throw
SnapshotUpdated(r) ==
    pushUpdateSnapshot(r) /\ ~SnapshotThrows(proc[r].command[1])

\* C37: when a SyncService_pushCommand has updated the snapshot, the stored
\* snapshot carries the version the call assigned, and its winners are the
\* names of the EJECT commands pushed since the last INIT or RESET, in push
\* order; the commands pushed are those of the list the call has stored.
C37_Step ==
    \A r \in 1 .. MaxRequests :
        SnapshotUpdated(r) =>
            /\ StoredSnapshot'.version = proc[r].version
            /\ StoredSnapshot'.winners = EjectedNames(proc[r].commands)
C37_Snapshot == [][C37_Step]_vars

\* the commands the polls of the viewer have returned, in the order received
RECURSIVE ReceivedBy(_)
ReceivedBy(n) ==
    IF n = 0 THEN <<>>
    ELSE ReceivedBy(n - 1) \o (IF n \in PollIds /\ n \in DOMAIN replies
                               THEN replies[n].commands ELSE <<>>)
Received == ReceivedBy(Len(proc))
\* the call n has put its command into the stored list
HasPushed(n) ==
    /\ proc[n].op = "push"
    /\ proc[n].pc \in {"putVersion", "updateSnapshot", "finally", "done"}
    /\ proc[n].commands # <<>>
\* the commands the master has pushed, as stamped, in push order
RECURSIVE PushedBy(_)
PushedBy(n) ==
    IF n = 0 THEN <<>>
    ELSE PushedBy(n - 1) \o (IF HasPushed(n)
                             THEN <<proc[n].commands[Len(proc[n].commands)]>>
                             ELSE <<>>)
Pushed == PushedBy(Len(proc))

\* C38: what a viewer has received by polling with the version of its poll
\* before is the commands the master has pushed, each once and in push
\* order, up to the last one received: nothing left out, nothing twice.
C38_Delivery ==
    /\ Len(Received) <= Len(Pushed)
    /\ Received = SubSeq(Pushed, 1, Len(Received))

\* ------------------------------------------------------------------------
\* Properties of the spreadsheet service
\* ------------------------------------------------------------------------
RemoveAt(s, i) == SubSeq(s, 1, i - 1) \o SubSeq(s, i + 1, Len(s))

\* C39: SheetService_recordWinner(name, round, sheet) for a name that
\* SheetService_getNames(sheet) returns leaves getNames(sheet) with one
\* occurrence of that name taken out and everything else as it was, and,
\* if the spreadsheet has a winner-record sheet, that sheet with exactly
\* one row more.
C39_Step ==
    \A name \in SheetInputs.names, round \in SheetInputs.rounds,
       sheetName \in SheetInputs.sheetNames :
        LET before == getNames(sheetName)
        IN  (/\ recordWinner(name, round, sheetName)
             /\ \E i \in DOMAIN before : before[i] = name) =>
                /\ \E i \in DOMAIN before :
                      /\ before[i] = name
                      /\ unflagged(nameSheet') = RemoveAt(before, i)
                /\ recordSheet # <<>> =>
                      Len(recordSheet'[1]) = Len(recordSheet[1]) + 1
C39_Marked == [][C39_Step]_vars

====
